---- MODULE Spec2Model ----
(***************************************************************************)
(* objection-rest: the REST route generator (lib/RestApiGenerator.js), its *)
(* request handlers and the express adapter, over the test fixture's       *)
(* schema (tests/utils.js).                                                *)
(*                                                                         *)
(* Strings of the program are sequences of one-character strings, so that  *)
(* concatenation, case conversion and the last character are computed.     *)
(***************************************************************************)
EXTENDS Integers, Sequences, FiniteSets, TLC

VARIABLES
  models,        \* this._models: insertion-ordered (tableName, modelClass) entries
  findQueries,   \* this._findQueries: insertion-ordered (tableName, findQuery) entries
  routePrefix,   \* this._routePrefix
  pluralizer,    \* this._pluralizer
  exclude,       \* this._exclude: the exclusion rules, in registration order
  registered,    \* the adapter calls generate() made, in order
  phase,         \* "config" until generate() ran, then "generated"
  calls,         \* the configuration calls made so far, in order
  databaseGetter, \* this._databaseGetter: whether a per-request resolver is set
  db,            \* the committed rows of the database
  trx,           \* the open transaction: its owner (0: none) and its working copy
  reqs,          \* the requests in flight, by slot: inputs, position, response
  issued,        \* the number of requests received so far
  db2,           \* the committed rows behind the second connection
  trx2           \* the open transaction on the second connection

genVars == <<models, findQueries, routePrefix, pluralizer, exclude, registered, phase,
             calls, databaseGetter>>

reqVars == <<db, trx, reqs, issued, db2, trx2>>

vars == <<genVars, reqVars>>

None == "none"

(***************************************************************************)
(* Bounds                                                                  *)
(***************************************************************************)
\* configuration calls made before generate()
MaxCalls == 3

\* requests received in one run, and requests in flight at once
MaxRequests == 2
MaxInFlight == 2

\* requests received in a run that follows each one to its response
MaxAdapterRequests == 1

\* the fixture: insertData(session, {persons, pets, movies})
NumPersons == 2
NumPets == 1
NumMovies == 1

(***************************************************************************)
(* Strings                                                                 *)
(***************************************************************************)
UpperCaseLetters ==
  <<"A","B","C","D","E","F","G","H","I","J","K","L","M",
    "N","O","P","Q","R","S","T","U","V","W","X","Y","Z">>

LowerCaseLetters ==
  <<"a","b","c","d","e","f","g","h","i","j","k","l","m",
    "n","o","p","q","r","s","t","u","v","w","x","y","z">>

\* the case maps, by character
ToLowerMap ==
  [c \in {UpperCaseLetters[i] : i \in 1..26} |->
     LowerCaseLetters[CHOOSE i \in 1..26 : UpperCaseLetters[i] = c]]

ToUpperMap ==
  [c \in {LowerCaseLetters[i] : i \in 1..26} |->
     UpperCaseLetters[CHOOSE i \in 1..26 : LowerCaseLetters[i] = c]]

IsUpper(c) == c \in DOMAIN ToLowerMap

IsLower(c) == c \in DOMAIN ToUpperMap

IsLetter(c) == IsUpper(c) \/ IsLower(c)

CharToLower(c) == IF IsUpper(c) THEN ToLowerMap[c] ELSE c

CharToUpper(c) == IF IsLower(c) THEN ToUpperMap[c] ELSE c

\* String.prototype.toLowerCase
toLowerCase(s) == [i \in 1..Len(s) |-> CharToLower(s[i])]

\* _.last of a string: its last character, undefined (None) for the empty string
last(s) == IF Len(s) = 0 THEN None ELSE s[Len(s)]

\* _.upperFirst
upperFirst(s) == [i \in 1..Len(s) |-> IF i = 1 THEN CharToUpper(s[i]) ELSE s[i]]

\* A word of _.words starts at the first letter, after a separator (a
\* character that is no letter) and at an upper-case letter that follows a
\* lower-case one.  (Digits and runs of capitals are outside the alphabet
\* used here.)
WordStart(s, i) ==
  /\ IsLetter(s[i])
  /\ \/ i = 1
     \/ ~IsLetter(s[i - 1])
     \/ IsUpper(s[i]) /\ IsLower(s[i - 1])

\* _.camelCase: the words, lower-cased, every word but the first with its
\* first letter capitalised, joined without the separators.
RECURSIVE CamelFrom(_, _, _)
CamelFrom(s, i, seen) ==
  IF i > Len(s) THEN <<>>
  ELSE IF ~IsLetter(s[i]) THEN CamelFrom(s, i + 1, seen)
  ELSE IF WordStart(s, i)
       THEN <<(IF seen THEN CharToUpper(s[i]) ELSE CharToLower(s[i]))>>
              \o CamelFrom(s, i + 1, TRUE)
       ELSE <<CharToLower(s[i])>> \o CamelFrom(s, i + 1, seen)

camelCase(s) == CamelFrom(s, 1, FALSE)

\* s occurs in t at offset k (0-based)
OccursAt(s, t, k) ==
  /\ k + Len(s) <= Len(t)
  /\ \A i \in 1..Len(s) : t[k + i] = s[i]

RECURSIVE Flatten(_)
Flatten(ss) == IF Len(ss) = 0 THEN <<>> ELSE Head(ss) \o Flatten(Tail(ss))

Range(f) == {f[i] : i \in DOMAIN f}

(***************************************************************************)
(* String literals of the program and of the fixture                      *)
(***************************************************************************)
POST == <<"P","O","S","T">>
GET == <<"G","E","T">>
PUT == <<"P","U","T">>
PATCH == <<"P","A","T","C","H">>
DELETE == <<"D","E","L","E","T","E">>

SlashId == <<"/",":","i","d">>
SlashIdSlash == <<"/",":","i","d","/">>
SlashRelatedId == <<"/",":","r","e","l","a","t","e","d","I","d">>

(***************************************************************************)
(* Model classes: tests/utils.js createModels                              *)
(***************************************************************************)
Relation(name, kind, owner, related) ==
  [name |-> name, kind |-> kind, ownerModelClass |-> owner, relatedModelClass |-> related]

\* Person.relationMappings, in declaration order
PersonRelations ==
  << Relation(<<"p","a","r","e","n","t">>, "BelongsToOne", "Person", "Person"),
     Relation(<<"c","h","i","l","d","r","e","n">>, "HasMany", "Person", "Person"),
     Relation(<<"p","e","t","s">>, "HasMany", "Person", "Animal"),
     Relation(<<"m","o","v","i","e","s">>, "ManyToMany", "Person", "Movie") >>

\* The model classes addModel is called with.  Person, Animal and Movie are the
\* fixture's; PersonView is a second class over the Person table (a has-one
\* relation and nothing else), as a re-registration of a table name.
ModelClass(c) ==
  CASE c = "Person" ->
         [name |-> "Person", tableName |-> <<"P","e","r","s","o","n">>,
          relations |-> PersonRelations]
    [] c = "Animal" ->
         [name |-> "Animal", tableName |-> <<"A","n","i","m","a","l">>,
          relations |-> <<>>]
    [] c = "Movie" ->
         [name |-> "Movie", tableName |-> <<"M","o","v","i","e">>,
          relations |-> <<>>]
    [] c = "PersonView" ->
         [name |-> "PersonView", tableName |-> <<"P","e","r","s","o","n">>,
          relations |-> << Relation(<<"p","e","t">>, "HasOne", "PersonView", "Animal") >>]

ModelClasses == {"Person", "Animal", "Movie", "PersonView"}

getRelations(c) == ModelClass(c).relations

tableNameOf(c) == ModelClass(c).tableName

(***************************************************************************)
(* Insertion-ordered objects (Object.create(null) used as a map)           *)
(***************************************************************************)
HasKey(obj, k) == \E i \in 1..Len(obj) : obj[i].key = k

ValueAt(obj, k) == obj[CHOOSE i \in 1..Len(obj) : obj[i].key = k].value

\* obj[k] = v: an existing key keeps its position, a new key goes last
SetKey(obj, k, v) ==
  IF HasKey(obj, k)
  THEN [i \in 1..Len(obj) |-> IF obj[i].key = k THEN [key |-> k, value |-> v] ELSE obj[i]]
  ELSE Append(obj, [key |-> k, value |-> v])

(***************************************************************************)
(* The generator's configuration                                           *)
(***************************************************************************)
\* objection-find's findQuery(modelClass), and whether a modifyCb customised it
findQuery(c) == [modelClass |-> c, modified |-> FALSE]

\* function (word) { return word + 's'; }
DefaultPluralizer == [suffix |-> <<"s">>]

Pluralize(p, word) == word \o p.suffix

\* function RestApiGenerator(objection)
RestApiGenerator ==
  [models |-> <<>>, findQueries |-> <<>>, routePrefix |-> <<"/">>,
   exclude |-> <<>>, pluralizer |-> DefaultPluralizer]

\* mutant: the findQuery of every related model is created anew
RECURSIVE AddRelatedFindQueries_Overwrite(_, _, _)
AddRelatedFindQueries_Overwrite(fq, rels, i) ==
  IF i > Len(rels) THEN fq
  ELSE LET t == tableNameOf(rels[i].relatedModelClass) IN
       AddRelatedFindQueries_Overwrite(
         SetKey(fq, t, findQuery(rels[i].relatedModelClass)), rels, i + 1)

\* the _.each over modelClass.getRelations() of addModel
RECURSIVE AddRelatedFindQueries(_, _, _)
AddRelatedFindQueries(fq, rels, i) ==
  IF i > Len(rels) THEN fq
  ELSE LET t == tableNameOf(rels[i].relatedModelClass) IN
       AddRelatedFindQueries(
         IF ~HasKey(fq, t) THEN SetKey(fq, t, findQuery(rels[i].relatedModelClass)) ELSE fq,
         rels, i + 1)

addModel(cfg, c, modifyCb) ==
  LET t == tableNameOf(c)
      fq == IF modifyCb THEN [findQuery(c) EXCEPT !.modified = TRUE] ELSE findQuery(c)
  IN [cfg EXCEPT
        !.models = SetKey(cfg.models, t, c),
        !.findQueries = AddRelatedFindQueries(SetKey(cfg.findQueries, t, fq), getRelations(c), 1)]

\* mutant: the separator appended to every prefix
setRoutePrefix_Always(cfg, prefix) == [cfg EXCEPT !.routePrefix = prefix \o <<"/">>]

setRoutePrefix(cfg, prefix) ==
  IF last(prefix) # "/"
  THEN [cfg EXCEPT !.routePrefix = prefix \o <<"/">>]
  ELSE [cfg EXCEPT !.routePrefix = prefix]

setPluralizer(cfg, p) == [cfg EXCEPT !.pluralizer = p]

addExclude(cfg, method, matcher) ==
  [cfg EXCEPT !.exclude = Append(cfg.exclude, [method |-> method, exclude |-> matcher])]

(***************************************************************************)
(* Exclusion matchers: a string, or a pattern (a literal with optional     *)
(* ^ and $ anchors and no flags, so that test() keeps no state)            *)
(***************************************************************************)
StringMatcher(s) == [isString |-> TRUE, source |-> s, caret |-> FALSE, dollar |-> FALSE]

PatternMatcher(s, caret, dollar) ==
  [isString |-> FALSE, source |-> s, caret |-> caret, dollar |-> dollar]

\* RegExp.prototype.test
RegExpTest(re, route) ==
  \E k \in 0..Len(route) :
    /\ OccursAt(re.source, route, k)
    /\ re.caret => k = 0
    /\ re.dollar => k + Len(re.source) = Len(route)

\* mutant: the method compared as written
RuleMatches_CaseSensitive(exc, method, route) ==
  IF exc.method = method
  THEN IF exc.exclude.isString
       THEN exc.exclude.source = route
       ELSE RegExpTest(exc.exclude, route)
  ELSE FALSE

RuleMatches(exc, method, route) ==
  IF toLowerCase(exc.method) = toLowerCase(method)
  THEN IF exc.exclude.isString
       THEN exc.exclude.source = route
       ELSE RegExpTest(exc.exclude, route)
  ELSE FALSE

\* mutant: only the first rule registered is consulted
_isExcluded_FirstRule(cfg, method, route) ==
  Len(cfg.exclude) > 0 /\ RuleMatches(cfg.exclude[1], method, route)

_isExcluded(cfg, method, route) ==
  \E i \in 1..Len(cfg.exclude) : RuleMatches(cfg.exclude[i], method, route)

(***************************************************************************)
(* Routes                                                                  *)
(***************************************************************************)
_routeForModel(cfg, c) ==
  cfg.routePrefix \o Pluralize(cfg.pluralizer, camelCase(tableNameOf(c)))

_routeForRelation(cfg, relation) ==
  _routeForModel(cfg, relation.ownerModelClass) \o SlashIdSlash \o relation.name

\* var route = ... of the _generateX named: the route it hands to the adapter
RegisteredRoute(cfg, handler, c, relation) ==
  CASE handler \in {"_generatePost", "_generateGetAll", "_generatePatchAll",
                    "_generateDeleteAll"} ->
         _routeForModel(cfg, c)
    [] handler \in {"_generateGet", "_generatePut", "_generatePatch", "_generateDelete"} ->
         _routeForModel(cfg, c) \o SlashId
    [] handler \in {"_generateRelationPost", "_generateRelationGetAll",
                    "_generateRelationPutAll", "_generateRelationDeleteAll"} ->
         _routeForRelation(cfg, relation)
    [] handler = "_generateRelationRelate" ->
         _routeForRelation(cfg, relation) \o SlashRelatedId

(***************************************************************************)
(* generate(app): the adapter calls, in order                              *)
(***************************************************************************)
\* this._adapter(app, method, route, handler) as made by the _generateX named
Endpoint(method, route, handler, c, relationName) ==
  [method |-> method, route |-> route, handler |-> handler,
   modelClass |-> c, relation |-> relationName]

Unless(excluded, endpoint) == IF ~excluded THEN <<endpoint>> ELSE <<>>

\* mutant: the PUT endpoint for every relation kind
relationPutAllowed_AnyKind(relation) == TRUE

relationPutAllowed(relation) == relation.kind # "BelongsToOne"

relationRelateAllowed(relation) == relation.kind = "ManyToMany"

GenerateRelation(cfg, c, relation) ==
  LET route == _routeForRelation(cfg, relation) IN
       Unless(_isExcluded(cfg, POST, route),
              Endpoint(POST, route, "_generateRelationPost", c, relation.name))
    \o Unless(_isExcluded(cfg, GET, route),
              Endpoint(GET, route, "_generateRelationGetAll", c, relation.name))
    \o Unless(_isExcluded(cfg, DELETE, route),
              Endpoint(DELETE, route, "_generateRelationDeleteAll", c, relation.name))
    \o (IF relationPutAllowed(relation)
        THEN Unless(_isExcluded(cfg, PUT, route),
                    Endpoint(PUT, route, "_generateRelationPutAll", c, relation.name))
        ELSE <<>>)
    \o (IF relationRelateAllowed(relation)
        THEN Unless(_isExcluded(cfg, POST, route \o SlashRelatedId),
                    Endpoint(POST, route \o SlashRelatedId, "_generateRelationRelate",
                             c, relation.name))
        ELSE <<>>)

GenerateModel(cfg, c) ==
  LET route == _routeForModel(cfg, c)
      rels == getRelations(c)
  IN   Unless(_isExcluded(cfg, POST, route), Endpoint(POST, route, "_generatePost", c, <<>>))
    \o Unless(_isExcluded(cfg, GET, route), Endpoint(GET, route, "_generateGetAll", c, <<>>))
    \o Unless(_isExcluded(cfg, PATCH, route),
              Endpoint(PATCH, route, "_generatePatchAll", c, <<>>))
    \o Unless(_isExcluded(cfg, DELETE, route),
              Endpoint(DELETE, route, "_generateDeleteAll", c, <<>>))
    \o Unless(_isExcluded(cfg, GET, route \o SlashId),
              Endpoint(GET, route \o SlashId, "_generateGet", c, <<>>))
    \o Unless(_isExcluded(cfg, PUT, route \o SlashId),
              Endpoint(PUT, route \o SlashId, "_generatePut", c, <<>>))
    \o Unless(_isExcluded(cfg, PATCH, route \o SlashId),
              Endpoint(PATCH, route \o SlashId, "_generatePatch", c, <<>>))
    \o Unless(_isExcluded(cfg, DELETE, route \o SlashId),
              Endpoint(DELETE, route \o SlashId, "_generateDelete", c, <<>>))
    \o Flatten([i \in 1..Len(rels) |-> GenerateRelation(cfg, c, rels[i])])

generate(cfg) ==
  Flatten([i \in 1..Len(cfg.models) |-> GenerateModel(cfg, cfg.models[i].value)])

\* the (method, route) pairs of a sequence of adapter calls
Pairs(eps) == {<<eps[i].method, eps[i].route>> : i \in 1..Len(eps)}

(***************************************************************************)
(* Configuration calls                                                     *)
(***************************************************************************)
\* the arguments the configuration calls are made with
ModifyCbFor(c) == IF c \in {"Animal", "Movie"} THEN BOOLEAN ELSE {FALSE}

Prefixes == { <<>>, <<"/","a","p","i">>, <<"/","a","p","i","/">> }

Pluralizers == { [suffix |-> <<"e","s">>], [suffix |-> <<>>] }

str_persons == <<"/","p","e","r","s","o","n","s">>
str_personsMovies == str_persons \o SlashIdSlash \o <<"m","o","v","i","e","s">>
str_apiPersons == <<"/","a","p","i">> \o str_persons

ExcludeRules ==
  { [method |-> GET, exclude |-> StringMatcher(str_persons)],
    [method |-> <<"p","o","s","t">>, exclude |-> StringMatcher(str_personsMovies)],
    [method |-> GET, exclude |-> StringMatcher(str_apiPersons)],
    [method |-> PUT, exclude |-> PatternMatcher(<<"p","e","t","s">>, FALSE, FALSE)],
    [method |-> <<"D","e","l","e","t","e">>, exclude |-> PatternMatcher(SlashId, FALSE, TRUE)] }

Cfg ==
  [models |-> models, findQueries |-> findQueries, routePrefix |-> routePrefix,
   exclude |-> exclude, pluralizer |-> pluralizer]

\* one configuration call applied to a configuration
ApplyCall(cfg, call) ==
  CASE call.op = "addModel" -> addModel(cfg, call.modelClass, call.modifyCb)
    [] call.op = "routePrefix" -> setRoutePrefix(cfg, call.routePrefix)
    [] call.op = "pluralizer" -> setPluralizer(cfg, call.pluralizer)
    [] call.op = "exclude" -> addExclude(cfg, call.method, call.exclude)

\* the configuration a sequence of calls leaves
RECURSIVE Replay(_, _)
Replay(cs, n) == IF n = 0 THEN RestApiGenerator ELSE ApplyCall(Replay(cs, n - 1), cs[n])

(***************************************************************************)
(* The database: the schema and fixture of tests/utils.js                  *)
(*                                                                         *)
(* A row is [id, name, fk]: fk is Person.pid, Animal.ownerId, and NULL in  *)
(* Movie; name stands for the data columns.  Person_Movie holds the join   *)
(* rows.  seq holds the autoincrement counters.                            *)
(***************************************************************************)
NULL == 0 - 1

Row(id, name, fk) == [id |-> id, name |-> name, fk |-> fk]

JoinRow(actorId, movieId) == [actorId |-> actorId, movieId |-> movieId]

\* insertData: person p has parent p - 1, pets and movies numbered per person
Fixture ==
  [Person |-> {Row(p, "F", IF p > 1 THEN p - 1 ELSE NULL) : p \in 1..NumPersons},
   Animal |-> {Row((p - 1) * NumPets + a, "P", p) : p \in 1..NumPersons, a \in 1..NumPets},
   Movie |-> {Row((p - 1) * NumMovies + m, "M", NULL) : p \in 1..NumPersons, m \in 1..NumMovies},
   Person_Movie |->
     {JoinRow(p, (p - 1) * NumMovies + m) : p \in 1..NumPersons, m \in 1..NumMovies},
   seq |-> [Person |-> NumPersons, Animal |-> NumPersons * NumPets,
            Movie |-> NumPersons * NumMovies]]

EmptyDb ==
  [Person |-> {}, Animal |-> {}, Movie |-> {}, Person_Movie |-> {},
   seq |-> [Person |-> 0, Animal |-> 0, Movie |-> 0]]

RowsById(d, table, id) == {x \in d[table] : x.id = id}

\* what a query that finds no row yields
Undefined == Row(NULL, "", NULL)

\* .where(idColumn, id).first(): the row, or undefined
First(d, table, id) ==
  IF RowsById(d, table, id) = {} THEN Undefined
  ELSE CHOOSE x \in RowsById(d, table, id) : TRUE

Max(a, b) == IF a >= b THEN a ELSE b

\* the foreign keys of createDb: Person.pid and Animal.ownerId reference
\* Person.id, Person_Movie references Person.id and Movie.id
ForeignKeyHolds(d, table, row) ==
  \/ table = "Movie"
  \/ row.fk = NULL
  \/ RowsById(d, "Person", row.fk) # {}

\* whether INSERT of the row succeeds: primary key unique, foreign key present
CanInsert(d, table, row) ==
  /\ RowsById(d, table, row.id) = {}
  /\ ForeignKeyHolds(d, table, row)

\* the id an insert stores: the one supplied, else the next of the sequence
InsertId(d, table, id) == IF id = NULL THEN d.seq[table] + 1 ELSE id

InsertRow(d, table, row) ==
  [d EXCEPT ![table] = @ \cup {row},
            !.seq[table] = Max(@, row.id)]

\* UPDATE table SET name = .. [, fk = ..] WHERE id IN ids
UpdateRows(d, table, ids, name) ==
  [d EXCEPT ![table] = {IF x.id \in ids THEN [x EXCEPT !.name = name] ELSE x : x \in @}]

SetFk(d, table, ids, fk) ==
  [d EXCEPT ![table] = {IF x.id \in ids THEN [x EXCEPT !.fk = fk] ELSE x : x \in @}]

\* DELETE FROM table WHERE id IN ids, with the ON DELETE actions of createDb:
\* Person.pid SET NULL, Animal.ownerId CASCADE, Person_Movie CASCADE
DeleteRows(d, table, ids) ==
  CASE table = "Person" ->
         [d EXCEPT
            !.Person = {IF x.fk \in ids THEN [x EXCEPT !.fk = NULL] ELSE x :
                          x \in {y \in @ : y.id \notin ids}},
            !.Animal = {x \in @ : x.fk \notin ids},
            !.Person_Movie = {j \in @ : j.actorId \notin ids}]
    [] table = "Movie" ->
         [d EXCEPT
            !.Movie = {x \in @ : x.id \notin ids},
            !.Person_Movie = {j \in @ : j.movieId \notin ids}]
    [] table = "Animal" ->
         [d EXCEPT !.Animal = {x \in @ : x.id \notin ids}]

Ids(rows) == {x.id : x \in rows}

\* the relation of the fixture's Person class with the given name
RelationNamed(c, name) ==
  LET rels == getRelations(c) IN rels[CHOOSE i \in 1..Len(rels) : rels[i].name = name]

\* model.$relatedQuery(relation.name): the rows related to the owner row
Related(d, relation, owner) ==
  LET t == relation.relatedModelClass IN
    CASE relation.kind = "BelongsToOne" -> {x \in d[t] : x.id = owner.fk}
      [] relation.kind = "HasMany" -> {x \in d[t] : x.fk = owner.id}
      [] relation.kind = "ManyToMany" ->
           {x \in d[t] : JoinRow(owner.id, x.id) \in d.Person_Movie}

(***************************************************************************)
(* Identifier values as they arrive in a request body                      *)
(*                                                                         *)
(* undefined, a number, or a string holding the decimal text of a number:  *)
(* the canonical text ("1"), or with a leading zero ("01").                *)
(***************************************************************************)
Undef == [t |-> "undefined", n |-> 0, canon |-> TRUE]

Num(n) == [t |-> "number", n |-> n, canon |-> TRUE]

Str(n, canon) == [t |-> "string", n |-> n, canon |-> canon]

\* !v is false
Truthy(v) == (v.t = "number" /\ v.n # 0) \/ v.t = "string"

\* String(v), the key of obj[v]
PropertyKey(v) == <<v.t = "undefined", v.n, v.canon>>

\* v == w
LooseEq(v, w) ==
  CASE v.t = "undefined" \/ w.t = "undefined" -> v.t = w.t
    [] v.t = "string" /\ w.t = "string" -> v = w
    [] OTHER -> v.n = w.n

\* the value the database compares or stores for v (NULL: none supplied)
ToDbId(v) == IF v.t = "undefined" THEN NULL ELSE v.n

\* model.$id() of a row read from the database
RowId(x) == Num(x.id)

Item(id, name) == [id |-> id, name |-> name]

(***************************************************************************)
(* _generateRelationPutAll: the reconciliation plan                        *)
(***************************************************************************)
\* _.keyBy(current, idProperty): the keys present
currentById(current) == {PropertyKey(RowId(x)) : x \in current}

\* mutant: an item is new only when it carries no id
isNew_NoId(current, m) == ~Truthy(m.id)

isNew(current, m) ==
  ~Truthy(m.id) \/ PropertyKey(m.id) \notin currentById(current)

insertModels(current, inputModels) ==
  SelectSeq(inputModels, LAMBDA m : isNew(current, m))

updateModels(current, inputModels) ==
  SelectSeq(inputModels, LAMBDA m : ~isNew(current, m))

\* mutant: deleteModels compares identifiers with ===
deleteModels_Strict(current, inputModels) ==
  {x \in current :
     ~\E i \in 1..Len(inputModels) : inputModels[i].id = RowId(x)}

deleteModels(current, inputModels) ==
  {x \in current :
     ~\E i \in 1..Len(inputModels) : LooseEq(inputModels[i].id, RowId(x))}

(***************************************************************************)
(* Requests                                                                *)
(***************************************************************************)
Slots == 1..MaxInFlight

\* mutant: relation create runs its queries outside a transaction
TransactionHandlers_NoRelationPost ==
  {"_generatePost", "_generateDelete",
   "_generateRelationPutAll", "_generateRelationDeleteAll", "_generateRelationRelate"}

\* mutant: relation replace runs its queries outside a transaction
TransactionHandlers_NoRelationPutAll ==
  {"_generatePost", "_generateDelete", "_generateRelationPost",
   "_generateRelationDeleteAll", "_generateRelationRelate"}

\* the handlers that wrap their queries in self._objection.transaction
TransactionHandlers ==
  {"_generatePost", "_generateDelete", "_generateRelationPost",
   "_generateRelationPutAll", "_generateRelationDeleteAll", "_generateRelationRelate"}

UsesTransaction(handler) == handler \in TransactionHandlers

\* a slot with no request
Idle ==
  [pc |-> "idle", handler |-> "", modelClass |-> "", relation |-> <<>>,
   id |-> NULL, relatedId |-> NULL, body |-> <<>>, eager |-> "", filter |-> "",
   model |-> Undefined, inserted |-> Undefined,
   updates |-> <<>>, inserts |-> <<>>, deletes |-> {}, pending |-> {},
   status |-> "none", statusCode |-> 0, error |-> "", kind |-> "", result |-> {}, total |-> 0,
   called |-> 0, sent |-> 0, nexted |-> 0, knex |-> "knex", resolved |-> None,
   log |-> <<>>, committed |-> 0, rolledBack |-> 0, lookup |-> "none", current |-> {}]

\* the first persistence call of each handler
FirstStep(handler) ==
  CASE handler = "_generatePost" -> "insert"
    [] handler = "_generateGet" -> "fetch"
    [] handler \in {"_generatePut", "_generatePatch"} -> "write"
    [] handler = "_generateDelete" -> "delete"
    [] handler = "_generateGetAll" -> "find"
    [] handler \in {"_generatePatchAll", "_generateDeleteAll"} -> "bulk"
    [] OTHER -> "lookup"

\* the adapter calls the handler of an endpoint with {params, query, body}
NewRequest(ep, params, query, body) ==
  [Idle EXCEPT
     !.pc = FirstStep(ep.handler), !.handler = ep.handler,
     !.modelClass = ep.modelClass, !.relation = ep.relation,
     !.id = params.id, !.relatedId = params.relatedId,
     !.eager = query.eager, !.filter = query.filter, !.body = body, !.status = "pending"]

RelationOf(q) == RelationNamed(q.modelClass, q.relation)

\* the eager expression names no relation path the model allows
EagerFails(q) == q.eager = "bogus"

\* findQuery.build(req.query, query): the rows the filter of the query
\* string lets through (none given: all)
Passes(filter, x) == filter = "" \/ x.name = filter

\* the promise fulfils with a row, a list of rows, null or {}
Fulfil(q, kind, result) ==
  [q EXCEPT !.pc = "done", !.status = "fulfilled", !.kind = kind, !.result = result]

\* the promise rejects; error(404) carries statusCode 404
Reject(q, statusCode, error) ==
  [q EXCEPT !.pc = "done", !.status = "rejected", !.statusCode = statusCode,
            !.error = error]

\* a call to a collaborator returns, or fails
Outcomes == {"ok", "fail"}

\* the handler throws before it has returned its promise
Throw(q, error) == [q EXCEPT !.pc = "done", !.status = "thrown", !.error = error]

\* modelClass.bindKnex(this._databaseGetter(req)), first statement of every
\* handler: the getter returns the database of the request, or throws
\* mutant: the registered model class is returned whatever the getter returned
_bindModelClass_Unbound(q, resolution) ==
  IF resolution.outcome = "fail" THEN Throw(q, "ResolverError")
  ELSE [q EXCEPT !.resolved = resolution.knex]

_bindModelClass(q, resolution) ==
  IF resolution.outcome = "fail" THEN Throw(q, "ResolverError")
  ELSE IF databaseGetter THEN [q EXCEPT !.knex = resolution.knex, !.resolved = resolution.knex]
  ELSE q

error(statusCode) == statusCode

NotFound(q) == Reject([q EXCEPT !.lookup = "absent"], error(404), "Error")

\* one persistence call recorded
Logged(q, op) ==
  [q EXCEPT !.log = Append(@, [op |-> op, tx |-> UsesTransaction(q.handler),
                               knex |-> q.knex])]

(***************************************************************************)
(* The connection and the transaction                                      *)
(*                                                                         *)
(* The sqlite3 configuration has one connection: a transaction holds it    *)
(* from its first query to commit or rollback, and every other query waits.*)
(***************************************************************************)
Closed == [owner |-> 0, db |-> EmptyDb, writes |-> 0]

\* the database and the transaction behind a connection
Db(knex) == IF knex = "knex" THEN db ELSE db2

Trx(knex) == IF knex = "knex" THEN trx ELSE trx2

\* the connection knex has rows d committed and transaction t open; the other
\* connection is as it was
Save(knex, d, t) ==
  IF knex = "knex"
  THEN db' = d /\ trx' = t /\ db2' = db2 /\ trx2' = trx2
  ELSE db2' = d /\ trx2' = t /\ db' = db /\ trx' = trx

Connected(r) == Trx(reqs[r].knex).owner \in {0, r}

\* the rows request r's queries see
View(r) ==
  IF Trx(reqs[r].knex).owner = r THEN Trx(reqs[r].knex).db ELSE Db(reqs[r].knex)

Writes(r) == IF Trx(reqs[r].knex).owner = r THEN Trx(reqs[r].knex).writes ELSE 0

\* a query of r ran: the rows become d, n of them written; r goes on as q
Step(r, q, d, n) ==
  IF UsesTransaction(q.handler)
  THEN /\ Save(q.knex, Db(q.knex), [owner |-> r, db |-> d, writes |-> Writes(r) + n])
       /\ reqs' = [reqs EXCEPT ![r] = q]
  ELSE /\ Save(q.knex, d, Trx(q.knex))
       /\ reqs' = [reqs EXCEPT ![r] = [q EXCEPT !.committed = @ + n]]

\* the last query of r ran: a transaction commits
Finish(r, q, d, n) ==
  IF UsesTransaction(q.handler)
  THEN /\ Save(q.knex, d, Closed)
       /\ reqs' = [reqs EXCEPT ![r] = [q EXCEPT !.committed = Writes(r) + n]]
  ELSE /\ Save(q.knex, d, Trx(q.knex))
       /\ reqs' = [reqs EXCEPT ![r] = [q EXCEPT !.committed = @ + n]]

\* a query of r failed, or its callback threw: a transaction rolls back
Fail(r, q) ==
  /\ Save(q.knex, Db(q.knex), IF UsesTransaction(q.handler) THEN Closed ELSE Trx(q.knex))
  /\ reqs' = [reqs EXCEPT ![r] = [q EXCEPT !.rolledBack = Writes(r)]]
(***************************************************************************)
(* Configuration calls and generate(app)                                   *)
(***************************************************************************)
Configure(call) ==
  /\ Len(calls) < MaxCalls
  /\ LET cfg == ApplyCall(Cfg, call) IN
       /\ models' = cfg.models
       /\ findQueries' = cfg.findQueries
       /\ routePrefix' = cfg.routePrefix
       /\ pluralizer' = cfg.pluralizer
       /\ exclude' = cfg.exclude
  /\ calls' = Append(calls, call)
  /\ UNCHANGED <<registered, phase, databaseGetter, reqVars>>

AddModel ==
  \E c \in ModelClasses : \E cb \in ModifyCbFor(c) :
    /\ phase = "config"
    /\ Configure([op |-> "addModel", modelClass |-> c, modifyCb |-> cb])

RoutePrefix ==
  \E p \in Prefixes :
    /\ phase = "config"
    /\ Configure([op |-> "routePrefix", routePrefix |-> p])

Pluralizer ==
  \E p \in Pluralizers :
    /\ phase = "config"
    /\ Configure([op |-> "pluralizer", pluralizer |-> p])

Exclude ==
  \E r \in ExcludeRules :
    /\ phase = "config"
    /\ Configure([op |-> "exclude", method |-> r.method, exclude |-> r.exclude])

Generate ==
  /\ phase = "config"
  /\ registered' = generate(Cfg)
  /\ phase' = "generated"
  /\ UNCHANGED <<models, findQueries, routePrefix, pluralizer, exclude, calls,
               databaseGetter, reqVars>>

GenInit ==
  /\ models = RestApiGenerator.models
  /\ findQueries = RestApiGenerator.findQueries
  /\ routePrefix = RestApiGenerator.routePrefix
  /\ pluralizer = RestApiGenerator.pluralizer
  /\ exclude = RestApiGenerator.exclude
  /\ registered = <<>>
  /\ phase = "config"
  /\ calls = <<>>
  /\ databaseGetter = FALSE
  /\ db = Fixture
  /\ trx = Closed
  /\ db2 = EmptyDb
  /\ trx2 = Closed
  /\ reqs = [r \in Slots |-> Idle]
  /\ issued = 0

GenNext == RoutePrefix \/ Pluralizer \/ Exclude \/ AddModel \/ Generate

\* the configuration phase followed by generate(app)
SpecGen == GenInit /\ [][GenNext]_vars

(***************************************************************************)
(* Requests arrive at the endpoints generate() registered                  *)
(***************************************************************************)
\* req.params.id and req.params.relatedId: a row of the fixture and one beyond
ParamIds == {1, NumPersons + 1}

\* req.params.relatedId: the last movie of the fixture (a movie of its last
\* person) and one beyond
RelatedParamIds == {NumPersons * NumMovies, NumPersons * NumMovies + 1}

\* req.query.eager: none, or an expression the query builder refuses
EagerExprs == {"", "bogus"}

\* a single-object body: {name} or {id: 0, name}
ObjectBodies == { <<Item(Undef, "x")>>, <<Item(Num(0), "x")>> }

\* the lists PUT on a relation is sent
ListBodies ==
  { <<>>,
    <<Item(Str(1, TRUE), "x")>>,
    <<Item(Num(1), "x"), Item(Undef, "y")>>,
    <<Item(Str(1, FALSE), "x")>>,
    <<Item(Num(0), "x")>>,
    <<Item(Num(2), "x"), Item(Num(9), "y")>> }

NoParams == [id |-> NULL, relatedId |-> NULL]

\* req.query filters: none, or one on the name column
Filters == {"", "x"}

NoQuery == [eager |-> "", filter |-> ""]

\* the requests an endpoint can be sent, by the handler it was registered with
RequestsTo(ep) ==
  CASE ep.handler = "_generatePost" ->
         {NewRequest(ep, NoParams, [NoQuery EXCEPT !.eager = e], b) : e \in EagerExprs, b \in ObjectBodies}
    [] ep.handler \in {"_generateGetAll", "_generateDeleteAll"} ->
         {NewRequest(ep, NoParams, [NoQuery EXCEPT !.filter = f], <<>>) : f \in Filters}
    [] ep.handler = "_generatePatchAll" ->
         {NewRequest(ep, NoParams, [NoQuery EXCEPT !.filter = f], <<Item(Undef, "y")>>) :
            f \in Filters}
    [] ep.handler = "_generateGet" ->
         {NewRequest(ep, [NoParams EXCEPT !.id = i], [NoQuery EXCEPT !.eager = e], <<>>) :
            i \in ParamIds, e \in EagerExprs}
    [] ep.handler \in {"_generatePut", "_generatePatch"} ->
         {NewRequest(ep, [NoParams EXCEPT !.id = i], [NoQuery EXCEPT !.eager = e], <<Item(Undef, "x")>>) :
            i \in ParamIds, e \in EagerExprs}
    [] ep.handler \in {"_generateDelete", "_generateRelationDeleteAll"} ->
         {NewRequest(ep, [NoParams EXCEPT !.id = i], NoQuery, <<>>) : i \in ParamIds}
    [] ep.handler = "_generateRelationGetAll" ->
         {NewRequest(ep, [NoParams EXCEPT !.id = i], [NoQuery EXCEPT !.filter = f], <<>>) :
            i \in ParamIds, f \in Filters}
    [] ep.handler = "_generateRelationPost" ->
         {NewRequest(ep, [NoParams EXCEPT !.id = i], [NoQuery EXCEPT !.eager = e], b) :
            i \in ParamIds, e \in EagerExprs, b \in ObjectBodies}
    [] ep.handler = "_generateRelationPutAll" ->
         {NewRequest(ep, [NoParams EXCEPT !.id = i], NoQuery, b) :
            i \in ParamIds, b \in ListBodies}
    [] ep.handler = "_generateRelationRelate" ->
         {NewRequest(ep, [id |-> i, relatedId |-> k], [NoQuery EXCEPT !.eager = e], <<>>) :
            i \in ParamIds, k \in RelatedParamIds, e \in EagerExprs}
    [] OTHER -> {}

\* the connections a databaseGetter hands out: the one the model classes
\* were registered with, and another
Connections == {"knex", "knex2"}

\* this._databaseGetter(req), where one is set: it returns the connection of
\* the request, or throws
Resolutions ==
  IF databaseGetter
  THEN {[outcome |-> "fail", knex |-> None]}
         \cup {[outcome |-> "ok", knex |-> k] : k \in Connections}
  ELSE {[outcome |-> "ok", knex |-> None]}

\* callback({params, query, body}): the handler runs up to its first query
Receive(r) ==
  /\ phase = "generated"
  /\ issued < MaxRequests
  /\ reqs[r].pc = "idle"
  /\ \A s \in 1..(r - 1) : reqs[s].pc # "idle"
  /\ \E e \in 1..Len(registered) : \E q \in RequestsTo(registered[e]) :
       \E resolution \in Resolutions :
         reqs' = [reqs EXCEPT ![r] = [_bindModelClass(q, resolution) EXCEPT !.called = 1]]
  /\ issued' = issued + 1
  /\ UNCHANGED <<genVars, db, trx, db2, trx2>>

\* mutant: the adapter answers only the handlers that fulfil
Respond_FulfilledOnly(r) ==
  /\ reqs[r].pc = "done"
  /\ reqs[r].status = "fulfilled"
  /\ reqs[r].sent + reqs[r].nexted = 0
  /\ reqs' = [reqs EXCEPT ![r].sent = 1]
  /\ UNCHANGED <<genVars, db, trx, db2, trx2, issued>>

\* Promise.try(...).then(res.send).catch(next): the handler has settled
Respond(r) ==
  /\ reqs[r].pc = "done"
  /\ reqs[r].sent + reqs[r].nexted = 0
  /\ reqs' = IF reqs[r].status = "fulfilled"
             THEN [reqs EXCEPT ![r].sent = @ + 1]
             ELSE [reqs EXCEPT ![r].nexted = @ + 1]
  /\ UNCHANGED <<genVars, db, trx, db2, trx2, issued>>

\* the response was sent: the slot takes the next request
Retire(r) ==
  /\ reqs[r].pc = "done"
  /\ reqs' = [reqs EXCEPT ![r] = Idle]
  /\ UNCHANGED <<genVars, db, trx, db2, trx2, issued>>

At(r, handlers, pc) ==
  /\ reqs[r].handler \in handlers
  /\ reqs[r].pc = pc
  /\ Connected(r)

(***************************************************************************)
(* _generatePost: insert, then model.$query().first(), in a transaction    *)
(***************************************************************************)
Post_Insert(r) ==
  /\ At(r, {"_generatePost"}, "insert")
  /\ \E outcome \in Outcomes :
       LET q == reqs[r]
           d == View(r)
           m == q.body[1]
           row == Row(InsertId(d, q.modelClass, ToDbId(m.id)), m.name, NULL)
       IN IF EagerFails(q) THEN Fail(r, Reject(q, 0, "ValidationError"))
          ELSE IF outcome = "fail" \/ ~CanInsert(d, q.modelClass, row)
          THEN Fail(r, Reject(Logged(q, "insert"), 0, "Error"))
          ELSE Step(r, [Logged(q, "insert") EXCEPT !.pc = "refetch", !.inserted = row],
                    InsertRow(d, q.modelClass, row), 1)
  /\ UNCHANGED <<genVars, issued>>

\* mutant: POST answers with the body it was sent, not with the stored row
Post_Refetch_Echo(r) ==
  /\ At(r, {"_generatePost"}, "refetch")
  /\ LET q == Logged(reqs[r], "select")
     IN Finish(r, Fulfil(q, "object", {Row(ToDbId(q.body[1].id), q.body[1].name, NULL)}),
               View(r), 0)
  /\ UNCHANGED <<genVars, issued>>

Post_Refetch(r) ==
  /\ At(r, {"_generatePost"}, "refetch")
  /\ \E outcome \in Outcomes :
       LET q == Logged(reqs[r], "select")
           d == View(r)
       IN IF outcome = "fail" THEN Fail(r, Reject(q, 0, "Error"))
          ELSE Finish(r, Fulfil(q, "object", {First(d, q.modelClass, q.inserted.id)}), d, 0)
  /\ UNCHANGED <<genVars, issued>>

(***************************************************************************)
(* _generateGetAll, _generatePatchAll, _generateDeleteAll: one query built *)
(* by findQuery.build from req.query                                       *)
(***************************************************************************)
\* mutant: the filter of the query string is not applied
Found_Unfiltered(d, q) == d[q.modelClass]

\* the rows of the collection the built query addresses
Found(d, q) == {x \in d[q.modelClass] : Passes(q.filter, x)}

\* {total: count}
Total(q, count) == [Fulfil(q, "total", {}) EXCEPT !.total = count]

GetAll_Find(r) ==
  /\ At(r, {"_generateGetAll"}, "find")
  /\ \E outcome \in Outcomes :
       LET q == Logged(reqs[r], "select")
           d == View(r)
       IN IF outcome = "fail" THEN Fail(r, Reject(q, 0, "Error"))
          ELSE Finish(r, Fulfil(q, "list", Found(d, q)), d, 0)
  /\ UNCHANGED <<genVars, issued>>

PatchAll_Patch(r) ==
  /\ At(r, {"_generatePatchAll"}, "bulk")
  /\ \E outcome \in Outcomes :
       LET q == Logged(reqs[r], "update")
           d == View(r)
           ids == Ids(Found(d, q))
       IN IF outcome = "fail" THEN Fail(r, Reject(q, 0, "Error"))
          ELSE Finish(r, Total(q, Cardinality(ids)),
                      UpdateRows(d, q.modelClass, ids, q.body[1].name), Cardinality(ids))
  /\ UNCHANGED <<genVars, issued>>

DeleteAll_Delete(r) ==
  /\ At(r, {"_generateDeleteAll"}, "bulk")
  /\ \E outcome \in Outcomes :
       LET q == Logged(reqs[r], "delete")
           d == View(r)
           ids == Ids(Found(d, q))
       IN IF outcome = "fail" THEN Fail(r, Reject(q, 0, "Error"))
          ELSE Finish(r, Total(q, Cardinality(ids)),
                      DeleteRows(d, q.modelClass, ids), Cardinality(ids))
  /\ UNCHANGED <<genVars, issued>>

(***************************************************************************)
(* _generateGet                                                            *)
(***************************************************************************)
Get_Fetch(r) ==
  /\ At(r, {"_generateGet"}, "fetch")
  /\ \E outcome \in Outcomes :
       LET q == reqs[r]
           d == View(r)
           model == First(d, q.modelClass, q.id)
       IN IF EagerFails(q) THEN Fail(r, Reject(q, 0, "ValidationError"))
          ELSE IF outcome = "fail" THEN Fail(r, Reject(Logged(q, "select"), 0, "Error"))
          ELSE IF model = Undefined THEN Fail(r, NotFound(Logged(q, "select")))
          ELSE Finish(r, Fulfil([Logged(q, "select") EXCEPT !.lookup = "found"],
                                "object", {model}), d, 0)
  /\ UNCHANGED <<genVars, issued>>

(***************************************************************************)
(* _generatePut and _generatePatch: the write, then the re-fetch by id     *)
(***************************************************************************)
ItemWrite(r) ==
  \E outcome \in Outcomes :
    LET q == Logged(reqs[r], "update")
        d == View(r)
        ids == Ids(RowsById(d, q.modelClass, q.id))
    IN IF outcome = "fail" THEN Fail(r, Reject(q, 0, "Error"))
       ELSE Step(r, [q EXCEPT !.pc = "refetch"],
                 UpdateRows(d, q.modelClass, ids, q.body[1].name), Cardinality(ids))

\* mutant: the write decides: 404 iff it matched no row, else the re-fetched row
ItemRefetch_WriteDecides(r) ==
  \E outcome \in Outcomes :
    LET q == reqs[r]
        d == View(r)
        model == First(d, q.modelClass, q.id)
    IN IF EagerFails(q) THEN Fail(r, Reject(q, 0, "ValidationError"))
       ELSE IF outcome = "fail" THEN Fail(r, Reject(Logged(q, "select"), 0, "Error"))
       ELSE IF q.committed = 0 THEN Fail(r, NotFound(Logged(q, "select")))
       ELSE Finish(r, Fulfil([Logged(q, "select") EXCEPT !.lookup = "found"],
                             "object", {model}), d, 0)

ItemRefetch(r) ==
  \E outcome \in Outcomes :
    LET q == reqs[r]
        d == View(r)
        model == First(d, q.modelClass, q.id)
    IN IF EagerFails(q) THEN Fail(r, Reject(q, 0, "ValidationError"))
       ELSE IF outcome = "fail" THEN Fail(r, Reject(Logged(q, "select"), 0, "Error"))
       ELSE IF model = Undefined THEN Fail(r, NotFound(Logged(q, "select")))
       ELSE Finish(r, Fulfil([Logged(q, "select") EXCEPT !.lookup = "found"],
                             "object", {model}), d, 0)

Put_Update(r) ==
  /\ At(r, {"_generatePut"}, "write")
  /\ ItemWrite(r)
  /\ UNCHANGED <<genVars, issued>>

Put_Refetch(r) ==
  /\ At(r, {"_generatePut"}, "refetch")
  /\ ItemRefetch(r)
  /\ UNCHANGED <<genVars, issued>>

Patch_Patch(r) ==
  /\ At(r, {"_generatePatch"}, "write")
  /\ ItemWrite(r)
  /\ UNCHANGED <<genVars, issued>>

Patch_Refetch(r) ==
  /\ At(r, {"_generatePatch"}, "refetch")
  /\ ItemRefetch(r)
  /\ UNCHANGED <<genVars, issued>>

(***************************************************************************)
(* _generateDelete: delete by id in a transaction, then {}                 *)
(***************************************************************************)
\* mutant: item DELETE looks the row up and rejects with 404 when it is absent
Delete_Delete_OrNotFound(r) ==
  /\ At(r, {"_generateDelete"}, "delete")
  /\ LET q == Logged(reqs[r], "delete")
         d == View(r)
         ids == Ids(RowsById(d, q.modelClass, q.id))
     IN IF ids = {} THEN Fail(r, NotFound(q))
        ELSE Finish(r, Fulfil(q, "empty", {}),
                    DeleteRows(d, q.modelClass, ids), Cardinality(ids))
  /\ UNCHANGED <<genVars, issued>>

Delete_Delete(r) ==
  /\ At(r, {"_generateDelete"}, "delete")
  /\ \E outcome \in Outcomes :
       LET q == Logged(reqs[r], "delete")
           d == View(r)
           ids == Ids(RowsById(d, q.modelClass, q.id))
       IN IF outcome = "fail" THEN Fail(r, Reject(q, 0, "Error"))
          ELSE Finish(r, Fulfil(q, "empty", {}),
                      DeleteRows(d, q.modelClass, ids), Cardinality(ids))
  /\ UNCHANGED <<genVars, issued>>

(***************************************************************************)
(* The relation handlers look the owner up by :id first                    *)
(***************************************************************************)
RelationHandlers ==
  {"_generateRelationPost", "_generateRelationGetAll", "_generateRelationPutAll",
   "_generateRelationDeleteAll", "_generateRelationRelate"}

\* the position after the owner was found
AfterLookup(handler) ==
  CASE handler = "_generateRelationPost" -> "insert"
    [] handler = "_generateRelationGetAll" -> "query"
    [] handler = "_generateRelationPutAll" -> "delete"
    [] handler = "_generateRelationDeleteAll" -> "delete"
    [] handler = "_generateRelationRelate" -> "relate"

\* _generateRelationPutAll: the plan, from the owner's members as loaded
Planned(q, current) ==
  [q EXCEPT !.current = current,
            !.updates = updateModels(current, q.body),
            !.inserts = insertModels(current, q.body),
            !.deletes = Ids(deleteModels(current, q.body))]

Relation_Lookup(r) ==
  /\ At(r, RelationHandlers, "lookup")
  /\ \E outcome \in Outcomes :
       LET q == Logged(reqs[r], "select")
           d == View(r)
           model == First(d, q.modelClass, q.id)
           found == [q EXCEPT !.pc = AfterLookup(q.handler), !.model = model,
                              !.lookup = "found"]
       IN IF outcome = "fail" THEN Fail(r, Reject(q, 0, "Error"))
          ELSE IF model = Undefined THEN Fail(r, NotFound(q))
          ELSE IF q.handler = "_generateRelationPutAll"
          THEN Step(r, Planned(found, Related(d, RelationOf(q), model)), d, 0)
          ELSE Step(r, found, d, 0)
  /\ UNCHANGED <<genVars, issued>>

\* mutant: the related row is inserted and nothing attaches it to the owner
RelatedInsert_Unattached(d, relation, owner, row) ==
  InsertRow(d, relation.relatedModelClass, row)

\* model.$relatedQuery(relation.name).insert(item): the rows after it, for
\* the row inserted
RelatedInsert(d, relation, owner, row) ==
  LET t == relation.relatedModelClass IN
    CASE relation.kind = "BelongsToOne" ->
           SetFk(InsertRow(d, t, row), relation.ownerModelClass, {owner.id}, row.id)
      [] relation.kind = "HasMany" -> InsertRow(d, t, row)
      [] relation.kind = "ManyToMany" ->
           [InsertRow(d, t, row) EXCEPT
              !.Person_Movie = @ \cup {JoinRow(owner.id, row.id)}]

\* the row $relatedQuery(...).insert stores for an item
RelatedRow(d, relation, owner, m) ==
  Row(InsertId(d, relation.relatedModelClass, ToDbId(m.id)), m.name,
      IF relation.kind = "HasMany" THEN owner.id ELSE NULL)

(***************************************************************************)
(* _generateRelationPost                                                   *)
(***************************************************************************)
RelationPost_Insert(r) ==
  /\ At(r, {"_generateRelationPost"}, "insert")
  /\ \E outcome \in Outcomes :
       LET q == Logged(reqs[r], "insert")
           d == View(r)
           rel == RelationOf(q)
           row == RelatedRow(d, rel, q.model, q.body[1])
       IN IF outcome = "fail" \/ ~CanInsert(d, rel.relatedModelClass, row)
          THEN Fail(r, Reject(q, 0, "Error"))
          ELSE Step(r, [q EXCEPT !.pc = "refetch", !.inserted = row],
                    RelatedInsert(d, rel, q.model, row), 1)
  /\ UNCHANGED <<genVars, issued>>

RelationPost_Refetch(r) ==
  /\ At(r, {"_generateRelationPost"}, "refetch")
  /\ \E outcome \in Outcomes :
       LET q == reqs[r]
           d == View(r)
           t == RelationOf(q).relatedModelClass
       IN IF EagerFails(q) THEN Fail(r, Reject(q, 0, "ValidationError"))
          ELSE IF outcome = "fail" THEN Fail(r, Reject(Logged(q, "select"), 0, "Error"))
          ELSE Finish(r, Fulfil(Logged(q, "select"), "object",
                                {First(d, t, q.inserted.id)}), d, 0)
  /\ UNCHANGED <<genVars, issued>>

(***************************************************************************)
(* _generateRelationGetAll                                                 *)
(***************************************************************************)
\* mutant: GET on a relation rejects with 404 when no related row is found
RelationGetAll_Query_OrNotFound(r) ==
  /\ At(r, {"_generateRelationGetAll"}, "query")
  /\ LET q == Logged(reqs[r], "select")
         d == View(r)
         rows == {x \in Related(d, RelationOf(q), q.model) : Passes(q.filter, x)}
     IN IF rows = {} THEN Fail(r, Reject(q, error(404), "Error"))
        ELSE Finish(r, Fulfil(q, "list", rows), d, 0)
  /\ UNCHANGED <<genVars, issued>>

RelationGetAll_Query(r) ==
  /\ At(r, {"_generateRelationGetAll"}, "query")
  /\ \E outcome \in Outcomes :
       LET q == Logged(reqs[r], "select")
           d == View(r)
           rel == RelationOf(q)
           rows == {x \in Related(d, rel, q.model) : Passes(q.filter, x)}
       IN IF outcome = "fail" THEN Fail(r, Reject(q, 0, "Error"))
          ELSE IF rel.kind = "BelongsToOne"
          THEN Finish(r, Fulfil(q, IF rows = {} THEN "null" ELSE "object", rows), d, 0)
          ELSE Finish(r, Fulfil(q, "list", rows), d, 0)
  /\ UNCHANGED <<genVars, issued>>

(***************************************************************************)
(* _generateRelationDeleteAll                                              *)
(***************************************************************************)
\* mutant: DELETE on a belongs-to-one relation deletes nothing
RelationDeleteAll_Delete_NotBelongsToOne(r) ==
  /\ At(r, {"_generateRelationDeleteAll"}, "delete")
  /\ LET q == Logged(reqs[r], "delete")
         d == View(r)
         rel == RelationOf(q)
         ids == IF rel.kind = "BelongsToOne" THEN {} ELSE Ids(Related(d, rel, q.model))
     IN Finish(r, Fulfil(q, "empty", {}),
               DeleteRows(d, rel.relatedModelClass, ids), Cardinality(ids))
  /\ UNCHANGED <<genVars, issued>>

RelationDeleteAll_Delete(r) ==
  /\ At(r, {"_generateRelationDeleteAll"}, "delete")
  /\ \E outcome \in Outcomes :
       LET q == Logged(reqs[r], "delete")
           d == View(r)
           rel == RelationOf(q)
           ids == Ids(Related(d, rel, q.model))
       IN IF outcome = "fail" THEN Fail(r, Reject(q, 0, "Error"))
          ELSE Finish(r, Fulfil(q, "empty", {}),
                      DeleteRows(d, rel.relatedModelClass, ids), Cardinality(ids))
  /\ UNCHANGED <<genVars, issued>>

(***************************************************************************)
(* _generateRelationRelate                                                 *)
(***************************************************************************)
RelationRelate_Relate(r) ==
  /\ At(r, {"_generateRelationRelate"}, "relate")
  /\ \E outcome \in Outcomes :
       LET q == Logged(reqs[r], "relate")
           d == View(r)
           rel == RelationOf(q)
       IN \* Person_Movie.movieId references Movie.id
          IF outcome = "fail" \/ RowsById(d, rel.relatedModelClass, q.relatedId) = {}
          THEN Fail(r, Reject(q, 0, "Error"))
          ELSE Step(r, [q EXCEPT !.pc = "refetch"],
                    [d EXCEPT !.Person_Movie = @ \cup {JoinRow(q.model.id, q.relatedId)}], 1)
  /\ UNCHANGED <<genVars, issued>>

\* relatedModelClass.where(...): a model class has query(), and no where()
RelationRelate_Refetch(r) ==
  /\ At(r, {"_generateRelationRelate"}, "refetch")
  /\ Fail(r, Reject(reqs[r], 0, "TypeError"))
  /\ UNCHANGED <<genVars, issued>>

(***************************************************************************)
(* _generateRelationPutAll                                                 *)
(***************************************************************************)
\* insertAndUpdateQueries, by kind and position
Queries(q) ==
  {<<"patch", i>> : i \in 1..Len(q.updates)} \cup {<<"insert", i>> : i \in 1..Len(q.inserts)}

\* mutant: the re-fetch does not wait for the insert/update group
AfterQuery_NoWait(q, pending) == [q EXCEPT !.pending = pending, !.pc = "refetch"]

\* mutant: Promise.race in place of Promise.all: the first query of the group
\* to complete ends the group
AfterQuery_Race(q, pending) == [q EXCEPT !.pending = {}, !.pc = "refetch"]

\* after a query of the group: the re-fetch once none is pending
AfterQuery(q, pending) ==
  [q EXCEPT !.pending = pending, !.pc = IF pending = {} THEN "refetch" ELSE "writes"]

RelationPutAll_Delete(r) ==
  /\ At(r, {"_generateRelationPutAll"}, "delete")
  /\ \E outcome \in Outcomes :
       LET q == Logged(reqs[r], "delete")
           d == View(r)
           rel == RelationOf(q)
           ids == Ids(Related(d, rel, q.model)) \cap q.deletes
       IN IF outcome = "fail" THEN Fail(r, Reject(q, 0, "Error"))
          ELSE Step(r, AfterQuery(q, Queries(q)),
                    DeleteRows(d, rel.relatedModelClass, ids), Cardinality(ids))
  /\ UNCHANGED <<genVars, issued>>

\* update.$query().patch()
RelationPutAll_Patch(r) ==
  /\ At(r, {"_generateRelationPutAll"}, "writes")
  /\ \E i \in 1..Len(reqs[r].updates) : \E outcome \in Outcomes :
       LET q == Logged(reqs[r], "update")
           d == View(r)
           t == RelationOf(q).relatedModelClass
           m == q.updates[i]
           ids == Ids(RowsById(d, t, ToDbId(m.id)))
       IN /\ <<"patch", i>> \in q.pending
          /\ IF outcome = "fail" THEN Fail(r, Reject(q, 0, "Error"))
             ELSE Step(r, AfterQuery(q, q.pending \ {<<"patch", i>>}),
                       UpdateRows(d, t, ids, m.name), Cardinality(ids))
  /\ UNCHANGED <<genVars, issued>>

\* delete insert[idProperty]; model.$relatedQuery(relation.name).insert(insert)
RelationPutAll_Insert(r) ==
  /\ At(r, {"_generateRelationPutAll"}, "writes")
  /\ \E i \in 1..Len(reqs[r].inserts) : \E outcome \in Outcomes :
       LET q == Logged(reqs[r], "insert")
           d == View(r)
           rel == RelationOf(q)
           row == RelatedRow(d, rel, q.model, [q.inserts[i] EXCEPT !.id = Undef])
       IN /\ <<"insert", i>> \in q.pending
          /\ IF outcome = "fail" \/ ~CanInsert(d, rel.relatedModelClass, row)
             THEN Fail(r, Reject(q, 0, "Error"))
             ELSE Step(r, AfterQuery(q, q.pending \ {<<"insert", i>>}),
                       RelatedInsert(d, rel, q.model, row), 1)
  /\ UNCHANGED <<genVars, issued>>

\* model.$relatedQuery(relation.name): the response
RelationPutAll_Refetch(r) ==
  /\ At(r, {"_generateRelationPutAll"}, "refetch")
  /\ \E outcome \in Outcomes :
       LET q == Logged(reqs[r], "select")
           d == View(r)
       IN IF outcome = "fail" THEN Fail(r, Reject(q, 0, "Error"))
          ELSE Finish(r, Fulfil(q, "list", Related(d, RelationOf(q), q.model)), d, 0)
  /\ UNCHANGED <<genVars, issued>>

(***************************************************************************)
(* The server of tests/test.js: Person, Movie and Animal registered with   *)
(* the default settings, the fixture inserted, requests arriving           *)
(***************************************************************************)
TestCalls ==
  << [op |-> "addModel", modelClass |-> "Person", modifyCb |-> FALSE],
     [op |-> "addModel", modelClass |-> "Movie", modifyCb |-> FALSE],
     [op |-> "addModel", modelClass |-> "Animal", modifyCb |-> FALSE] >>

TestCfg == Replay(TestCalls, Len(TestCalls))

Init ==
  /\ models = TestCfg.models
  /\ findQueries = TestCfg.findQueries
  /\ routePrefix = TestCfg.routePrefix
  /\ pluralizer = TestCfg.pluralizer
  /\ exclude = TestCfg.exclude
  /\ registered = generate(TestCfg)
  /\ phase = "generated"
  /\ calls = TestCalls
  /\ databaseGetter = FALSE
  /\ db = Fixture
  /\ trx = Closed
  /\ db2 = EmptyDb
  /\ trx2 = Closed
  /\ reqs = [r \in Slots |-> Idle]
  /\ issued = 0

Handle(r) ==
  \/ Post_Insert(r) \/ Post_Refetch(r)
  \/ GetAll_Find(r) \/ PatchAll_Patch(r) \/ DeleteAll_Delete(r)
  \/ Get_Fetch(r)
  \/ Put_Update(r) \/ Put_Refetch(r)
  \/ Patch_Patch(r) \/ Patch_Refetch(r)
  \/ Delete_Delete(r)
  \/ Relation_Lookup(r)
  \/ RelationPost_Insert(r) \/ RelationPost_Refetch(r)
  \/ RelationGetAll_Query(r)
  \/ RelationDeleteAll_Delete(r)
  \/ RelationRelate_Relate(r) \/ RelationRelate_Refetch(r)
  \/ RelationPutAll_Delete(r) \/ RelationPutAll_Patch(r)
  \/ RelationPutAll_Insert(r) \/ RelationPutAll_Refetch(r)

Next == \E r \in Slots : Receive(r) \/ Handle(r) \/ Retire(r)

Spec == Init /\ [][Next]_vars


(***************************************************************************)
(* The same server with a databaseGetter set and the express adapter       *)
(* followed to the response: the last request of a run is received, its    *)
(* handler settles, and the adapter answers it                             *)
(***************************************************************************)
InitAdapter ==
  /\ models = TestCfg.models
  /\ findQueries = TestCfg.findQueries
  /\ routePrefix = TestCfg.routePrefix
  /\ pluralizer = TestCfg.pluralizer
  /\ exclude = TestCfg.exclude
  /\ registered = generate(TestCfg)
  /\ phase = "generated"
  /\ calls = TestCalls
  /\ databaseGetter = TRUE
  /\ db = Fixture
  /\ trx = Closed
  /\ db2 = EmptyDb
  /\ trx2 = Closed
  /\ reqs = [r \in Slots |-> Idle]
  /\ issued = MaxRequests - MaxAdapterRequests

NextAdapter == \E r \in Slots : Receive(r) \/ Handle(r) \/ Respond(r)

\* a settled promise runs its then/catch callback
SpecAdapter ==
  InitAdapter /\ [][NextAdapter]_vars /\ WF_vars(\E r \in Slots : Respond(r))

(***************************************************************************)
(* The same server with a databaseGetter set that hands out two            *)
(* connections, the fixture behind the first and an empty database behind  *)
(* the second, and requests in flight together                             *)
(***************************************************************************)
InitResolver ==
  /\ models = TestCfg.models
  /\ findQueries = TestCfg.findQueries
  /\ routePrefix = TestCfg.routePrefix
  /\ pluralizer = TestCfg.pluralizer
  /\ exclude = TestCfg.exclude
  /\ registered = generate(TestCfg)
  /\ phase = "generated"
  /\ calls = TestCalls
  /\ databaseGetter = TRUE
  /\ db = Fixture
  /\ trx = Closed
  /\ db2 = EmptyDb
  /\ trx2 = Closed
  /\ reqs = [r \in Slots |-> Idle]
  /\ issued = 0

NextResolver == \E r \in Slots : Receive(r) \/ Handle(r)

SpecResolver == InitResolver /\ [][NextResolver]_vars
(***************************************************************************)
(* Route table: claims C1 - C3                                             *)
(***************************************************************************)
RegisteredClasses == {models[i].value : i \in 1..Len(models)}

\* the endpoints the kinds of a model's relations call for
CalledForRelation(cfg, relation) ==
  LET route == _routeForRelation(cfg, relation) IN
    {<<POST, route>>, <<GET, route>>, <<DELETE, route>>}
      \cup (IF relation.kind # "BelongsToOne" THEN {<<PUT, route>>} ELSE {})
      \cup (IF relation.kind = "ManyToMany" THEN {<<POST, route \o SlashRelatedId>>} ELSE {})

CalledForModel(cfg, c) ==
  LET route == _routeForModel(cfg, c) IN
    {<<POST, route>>, <<GET, route>>, <<PATCH, route>>, <<DELETE, route>>,
     <<GET, route \o SlashId>>, <<PUT, route \o SlashId>>,
     <<PATCH, route \o SlashId>>, <<DELETE, route \o SlashId>>}
      \cup UNION {CalledForRelation(cfg, r) : r \in Range(getRelations(c))}

CalledFor(cfg) == UNION {CalledForModel(cfg, c) : c \in RegisteredClasses}

NoDuplicates(eps) == Cardinality(Pairs(eps)) = Len(eps)

\* C1: with no exclusion rules, generate() registers exactly the 8 collection
\* and item endpoints of every registered model and, per relation, POST, GET
\* and DELETE, PUT iff the relation is not belongs-to-one, and the relate
\* route iff it is many-to-many; nothing else, and nothing twice.
C1_ExactEndpoints ==
  (phase = "generated" /\ exclude = <<>>) =>
    /\ Pairs(registered) = CalledFor(Cfg)
    /\ NoDuplicates(registered)

\* generate() ran without exclusion rules over a belongs-to-one, a has-many,
\* a many-to-many and (PersonView) a has-one relation
C1_Witness ==
  /\ phase = "generated"
  /\ exclude = <<>>
  /\ Len(models) = 2
  /\ \E i \in 1..Len(registered) : registered[i].handler = "_generateRelationRelate"
  /\ \E i \in 1..Len(registered) :
       registered[i].modelClass = "Person" /\ registered[i].handler = "_generateRelationPutAll"

C1_WitnessHasOne ==
  /\ phase = "generated"
  /\ exclude = <<>>
  /\ \E i \in 1..Len(registered) :
       registered[i].modelClass = "PersonView" /\ registered[i].handler = "_generateRelationPutAll"

\* a rule matches, in the words of the claim
C2_Matches(rule, method, route) ==
  /\ toLowerCase(rule.method) = toLowerCase(method)
  /\ \/ rule.exclude.isString /\ rule.exclude.source = route
     \/ ~rule.exclude.isString /\ RegExpTest(rule.exclude, route)

\* C2: an endpoint the kinds call for is registered iff no exclusion rule
\* matches it (method ignoring case; string equal to the full route, or
\* pattern testing true on it).
C2_ExcludedIffMatched ==
  phase = "generated" =>
    Pairs(registered) =
      {e \in CalledFor(Cfg) : ~\E i \in 1..Len(exclude) : C2_Matches(exclude[i], e[1], e[2])}

\* GET /persons is excluded and GET /persons/:id is registered; POST on the
\* movies relation is excluded by a lower-case rule and the relate route is
\* registered
C2_Witness ==
  /\ phase = "generated"
  /\ Len(exclude) = 2
  /\ <<GET, str_persons>> \in CalledFor(Cfg) \ Pairs(registered)
  /\ <<GET, str_persons \o SlashId>> \in Pairs(registered)
  /\ <<POST, str_personsMovies>> \in CalledFor(Cfg) \ Pairs(registered)
  /\ <<POST, str_personsMovies \o SlashRelatedId>> \in Pairs(registered)

Permuted(cs, p) == [i \in 1..Len(cs) |-> cs[p[i]]]

OrderIrrelevant ==
  LET pairs == Pairs(registered) IN
    \A p \in Permutations(1..Len(calls)) :
      Pairs(generate(Replay(Permuted(calls, p), Len(calls)))) = pairs

\* C3 as stated: every permutation of the configuration calls, followed by
\* generate(), registers the same set of (method, route) pairs.
C3_AnyPermutation == phase = "generated" => OrderIrrelevant

\* the setters are last-wins, and a table name holds one model class
SettersAgree ==
  \A i, j \in 1..Len(calls) :
    /\ (calls[i].op = "routePrefix" /\ calls[j].op = "routePrefix")
         => setRoutePrefix(RestApiGenerator, calls[i].routePrefix)
              = setRoutePrefix(RestApiGenerator, calls[j].routePrefix)
    /\ (calls[i].op = "pluralizer" /\ calls[j].op = "pluralizer")
         => calls[i].pluralizer = calls[j].pluralizer
    /\ (calls[i].op = "addModel" /\ calls[j].op = "addModel"
          /\ tableNameOf(calls[i].modelClass) = tableNameOf(calls[j].modelClass))
         => calls[i].modelClass = calls[j].modelClass

\* C3, amended: when the calls that set one slot (the prefix, the pluralizer,
\* the model class of a table name) agree, every permutation of the calls
\* registers the same set; in particular exclude() and addModel() commute.
C3_PermutationOfAgreeingCalls ==
  (phase = "generated" /\ SettersAgree) => OrderIrrelevant

\* an exclusion registered after the addModel of its model, with a prefix set
\* in between, removed its route
C3_Witness ==
  /\ phase = "generated"
  /\ SettersAgree
  /\ Len(calls) = 3
  /\ calls[1].op = "addModel" /\ calls[1].modelClass = "Person"
  /\ calls[2].op = "routePrefix"
  /\ calls[3].op = "exclude"
  /\ <<GET, str_apiPersons>> \in CalledFor(Cfg) \ Pairs(registered)

(***************************************************************************)
(* Requests: atomicity                                                     *)
(***************************************************************************)
\* request r made a persistence call or settled in this step
Acts(r) == reqs[r].status = "pending" /\ reqs'[r] # reqs[r]

Ops(q) == {q.log[i].op : i \in 1..Len(q.log)}

\* the calls of q that write, failed ones included
WriteCalls(q) == {i \in 1..Len(q.log) : q.log[i].op \in {"insert", "update", "delete", "relate"}}

\* C4: on every endpoint, item PUT and item PATCH included, a request whose
\* promise rejects has changed no persisted row: nothing it wrote was
\* committed, so no request can observe a change made by it.
C4_RejectedChangesNothing ==
  \A r \in Slots : reqs[r].status = "rejected" => reqs[r].committed = 0

CreateDeleteRelateHandlers ==
  {"_generatePost", "_generateDelete", "_generateRelationPost",
   "_generateRelationDeleteAll", "_generateRelationRelate"}

\* C5: collection create, item delete, relation create, relation delete-all
\* and relate make every persistence call inside one transaction: no call
\* before the last changes the persisted rows, a failing call (the final
\* re-fetch included) leaves them as they were and closes the transaction,
\* and the call that fulfils the request commits what the transaction
\* holds.
C5_OneTransaction ==
  [][\A r \in Slots :
       (Acts(r) /\ reqs[r].handler \in CreateDeleteRelateHandlers) =>
         /\ \A i \in 1..Len(reqs'[r].log) : reqs'[r].log[i].tx
         /\ reqs'[r].status = "pending" => (db' = db /\ trx'.owner = r)
         /\ reqs'[r].status = "rejected" =>
              (db' = db /\ trx' = Closed /\ reqs'[r].committed = 0)
         /\ reqs'[r].status = "fulfilled" =>
              /\ trx' = Closed
              /\ reqs'[r].committed >= Writes(r)
              /\ reqs[r].pc = "refetch" => db' = trx.db]_vars

\* a relation create whose insert succeeded and whose re-fetch failed
C5_Witness ==
  \E r \in Slots :
    /\ reqs[r].handler = "_generateRelationPost"
    /\ reqs[r].status = "rejected"
    /\ reqs[r].rolledBack = 1
    /\ Ops(reqs[r]) = {"select", "insert"}
    /\ db = Fixture

(***************************************************************************)
(* PUT on a relation: the reconciliation plan                              *)
(***************************************************************************)
\* the submitted item names the member, under coercing equality
Matches(m, x) == LooseEq(m.id, RowId(x))

Planning(q) == q.handler = "_generateRelationPutAll" /\ q.lookup = "found"

Replaced(q) == q.handler = "_generateRelationPutAll" /\ q.status = "fulfilled"

Among(seq, m) == \E j \in 1..Len(seq) : seq[j] = m

\* C6: every submitted item is in exactly one of insert and update, insert
\* iff it has no identifier or its identifier matches no current member;
\* delete is exactly the current members no submitted item matches under
\* coercing equality; and every current member is either in delete or the
\* target of an update item, never both and never neither.
C6_PlanAgrees ==
  \A r \in Slots :
    LET q == reqs[r]
        S == q.body
        C == q.current
    IN Planning(q) =>
         /\ \A i \in 1..Len(S) :
              /\ Among(q.inserts, S[i]) # Among(q.updates, S[i])
              /\ Among(q.inserts, S[i]) <=>
                   (S[i].id = Undef \/ ~\E x \in C : Matches(S[i], x))
         /\ q.deletes = {x.id : x \in {y \in C : ~\E i \in 1..Len(S) : Matches(S[i], y)}}
         /\ \A x \in C :
              (x.id \in q.deletes) # (\E j \in 1..Len(q.updates) : Matches(q.updates[j], x))

DistinctIds(S) ==
  \A i, j \in 1..Len(S) : (i # j /\ S[i].id # Undef) => ~LooseEq(S[i].id, S[j].id)

\* C8: after a successful PUT on a relation with S (distinct identifiers)
\* the relation holds one record per update item, with its id kept and the
\* submitted values, and one new record per insert item under an id the
\* client did not choose; no former member S does not name remains; and the
\* response is this set, of length |S|.
C8_RelationIsSubmittedList ==
  \A r \in Slots :
    LET q == reqs[r]
        S == q.body
        kept == {x \in q.result : \E j \in 1..Len(q.updates) :
                   x.id = ToDbId(q.updates[j].id) /\ x.name = q.updates[j].name}
        created == q.result \ kept
    IN (Replaced(q) /\ DistinctIds(S)) =>
         /\ q.kind = "list"
         /\ Cardinality(q.result) = Len(S)
         /\ Cardinality(kept) = Len(q.updates)
         /\ Cardinality(created) = Len(q.inserts)
         /\ \A x \in created :
              /\ x.id \notin Ids(q.current)
              /\ \A j \in 1..Len(q.inserts) : x.id # ToDbId(q.inserts[j].id)
         /\ \A x \in q.current :
              (~\E i \in 1..Len(S) : Matches(S[i], x)) => x.id \notin Ids(q.result)

\* C9: PUT on a relation is all-or-nothing: no call before the response
\* re-fetch changes the persisted rows, and when the owner is absent or the
\* delete, a patch or an insert fails the persisted rows stay as they were
\* and nothing the request wrote is committed, whatever had succeeded.
C9_AllOrNothing ==
  [][\A r \in Slots :
       (Acts(r) /\ reqs[r].handler = "_generateRelationPutAll") =>
         /\ \A i \in 1..Len(reqs'[r].log) : reqs'[r].log[i].tx
         /\ reqs'[r].status = "pending" => (db' = db /\ trx'.owner = r)
         /\ reqs'[r].status = "rejected" =>
              (db' = db /\ trx' = Closed /\ reqs'[r].committed = 0)
         /\ reqs'[r].status = "fulfilled" => (trx' = Closed /\ db' = trx.db)]_vars

\* a PUT whose delete and one query of the insert/update group succeeded
\* and whose other query of the group failed
C9_Witness ==
  \E r \in Slots :
    /\ reqs[r].handler = "_generateRelationPutAll"
    /\ reqs[r].status = "rejected"
    /\ reqs[r].rolledBack >= 1
    /\ reqs[r].pending # {}
    /\ Cardinality({i \in WriteCalls(reqs[r]) : reqs[r].log[i].op # "delete"}) = 2
    /\ db = Fixture

(***************************************************************************)
(* NotFound                                                                *)
(***************************************************************************)
ByIdHandlers ==
  {"_generateGet", "_generatePut", "_generatePatch", "_generateRelationPost",
   "_generateRelationGetAll", "_generateRelationDeleteAll", "_generateRelationPutAll",
   "_generateRelationRelate"}

\* C10: an endpoint addressing a row by :id, item DELETE aside, rejects
\* with statusCode 404 exactly when its lookup found no row with that key,
\* and then has made no insert, delete or relate and has changed no
\* persisted row; when the row was found it does not fail with 404.
C10_NotFound ==
  \A r \in Slots :
    LET q == reqs[r] IN
      (q.handler \in ByIdHandlers /\ q.pc = "done") =>
        /\ q.lookup = "absent" <=> (q.status = "rejected" /\ q.statusCode = 404)
        /\ q.lookup = "found" => q.statusCode # 404
        /\ q.statusCode = 404 =>
             /\ Ops(q) \cap {"insert", "delete", "relate"} = {}
             /\ q.committed = 0
             /\ q.rolledBack = 0

(***************************************************************************)
(* Item DELETE                                                             *)
(***************************************************************************)
\* C11: item DELETE never rejects with 404 and fulfils with {} whether or
\* not the row exists; its fulfilling step removes exactly the row with
\* that id from the model's table and no other row of it, and on a table
\* that no longer holds the id (the second of two DELETEs) it changes
\* nothing and answers the same.
C11_DeleteIfExists ==
  [][\A r \in Slots :
       (Acts(r) /\ reqs[r].handler = "_generateDelete") =>
         LET q == reqs'[r]
             t == q.modelClass
         IN /\ q.statusCode # 404
            /\ q.status # "pending"
            /\ q.status = "rejected" => db' = db
            /\ q.status = "fulfilled" =>
                 /\ q.kind = "empty" /\ q.result = {}
                 /\ Ids(db'[t]) = Ids(db[t]) \ {q.id}
                 /\ RowsById(db, t, q.id) = {} => db' = db
                 /\ DeleteRows(db', t, Ids(RowsById(db', t, q.id))) = db']_vars

\* two DELETEs of the same existing row, both fulfilled with {}
C11_Witness ==
  \E r, s \in Slots :
    /\ r # s
    /\ \A x \in {r, s} :
         /\ reqs[x].handler = "_generateDelete"
         /\ reqs[x].modelClass = "Person"
         /\ reqs[x].id = 1
         /\ reqs[x].status = "fulfilled"
         /\ reqs[x].kind = "empty"
    /\ reqs[r].committed = 1
    /\ reqs[s].committed = 0
    /\ Ids(db.Person) = Ids(Fixture.Person) \ {1}

(***************************************************************************)
(* POST on a relation                                                      *)
(***************************************************************************)
\* the step in which request r fulfils
Fulfils(r, handler) ==
  Acts(r) /\ reqs[r].handler = handler /\ reqs'[r].status = "fulfilled"

\* C12: the step that fulfils a POST on a relation commits exactly one new
\* record of the related model, which is the response and a member of the
\* owner's relation (belongs-to-one: the owner points at it; has-many: it
\* points at the owner; many-to-many: exactly one new join row links them);
\* every other record of the related model is as before, the owner's own
\* pointer aside.
C12_RelationPostCreatesOneMember ==
  [][\A r \in Slots :
       Fulfils(r, "_generateRelationPost") =>
         LET q == reqs'[r]
             rel == RelationOf(q)
             t == rel.relatedModelClass
             owner == First(db', q.modelClass, q.id)
         IN /\ q.kind = "object"
            /\ \E x \in db'[t] :
                 /\ q.result = {x}
                 /\ x.id \notin Ids(db[t])
                 /\ Cardinality(db'[t]) = Cardinality(db[t]) + 1
                 /\ \A y \in db[t] :
                      \/ y \in db'[t]
                      \/ /\ rel.kind = "BelongsToOne"
                         /\ y.id = q.id
                         /\ [y EXCEPT !.fk = x.id] \in db'[t]
                 /\ owner # Undefined
                 /\ x \in Related(db', rel, owner)
                 /\ rel.kind = "BelongsToOne" => owner.fk = x.id
                 /\ rel.kind = "HasMany" => x.fk = q.id
                 /\ rel.kind = "ManyToMany" =>
                      /\ JoinRow(q.id, x.id) \notin db.Person_Movie
                      /\ db'.Person_Movie = db.Person_Movie \cup {JoinRow(q.id, x.id)}
                 /\ rel.kind # "ManyToMany" => db'.Person_Movie = db.Person_Movie]_vars

\* a parent created for person 1, and a movie created for a person
C12_Witness ==
  \E r, s \in Slots :
    /\ \A x \in {r, s} :
         reqs[x].handler = "_generateRelationPost" /\ reqs[x].status = "fulfilled"
    /\ RelationOf(reqs[r]).kind = "BelongsToOne"
    /\ RelationOf(reqs[s]).kind = "ManyToMany"
    /\ Cardinality(db.Person) = NumPersons + 1
    /\ Cardinality(db.Movie) = NumPersons * NumMovies + 1
    /\ Cardinality(db.Person_Movie) = NumPersons * NumMovies + 1

(***************************************************************************)
(* DELETE on a relation                                                    *)
(***************************************************************************)
\* the rows of the related table that are members of another owner's
\* relation and not of this owner's, the owner itself aside
OthersOnly(d, rel, owner) ==
  {y \in d[rel.relatedModelClass] \ (Related(d, rel, owner) \cup {owner}) :
     \E o \in d[rel.ownerModelClass] : o.id # owner.id /\ y \in Related(d, rel, o)}

\* what C13 states of the step that fulfils a DELETE on a relation, with
\* Kept(y, z) saying that row y of before is row z of after
RelationEmptied(r, Kept(_, _, _)) ==
  LET q == reqs'[r]
      rel == RelationOf(q)
      t == rel.relatedModelClass
      owner == First(db, q.modelClass, q.id)
      members == Related(db, rel, owner)
  IN /\ q.kind = "empty" /\ q.result = {}
     /\ owner # Undefined
     /\ Ids(db'[t]) = Ids(db[t]) \ Ids(members)
     /\ RowsById(db', q.modelClass, q.id) # {}
     /\ Related(db', rel, First(db', q.modelClass, q.id)) = {}
     /\ \A y \in OthersOnly(db, rel, owner) : \E z \in db'[t] : Kept(y, z, Ids(members))

C15_RelateAttaches ==
  \A r \in Slots :
    LET q == reqs[r] IN
      (q.handler = "_generateRelationRelate" /\ q.pc = "done" /\ q.error # "Error") =>
        /\ q.status = "fulfilled"
        /\ q.kind = "object"
        /\ q.result = RowsById(db, RelationOf(q).relatedModelClass, q.relatedId)
        /\ q.result # {}
        /\ JoinRow(q.id, q.relatedId) \in db.Person_Movie

(***************************************************************************)
(* Bulk PATCH and DELETE on a collection                                   *)
(***************************************************************************)
\* the rows of the collection the filter of request q matches
Matching(d, q) == {x \in d[q.modelClass] : q.filter = "" \/ x.name = q.filter}

\* what C16 states of the steps that fulfil a bulk PATCH, a bulk DELETE and
\* a GET of the collection, with Kept(y, z, gone) saying that row y of
\* before is row z of after, gone being the ids deleted
BulkAffectsMatching(r, Kept(_, _, _)) ==
  LET q == reqs'[r]
      t == q.modelClass
      matching == Matching(db, q)
      rest == db[t] \ matching
  IN /\ Fulfils(r, "_generatePatchAll") =>
          /\ q.kind = "total" /\ q.total = Cardinality(matching)
          /\ q.filter = "" => q.total = Cardinality(db[t])
          /\ db'[t] = rest \cup {[x EXCEPT !.name = q.body[1].name] : x \in matching}
     /\ Fulfils(r, "_generateDeleteAll") =>
          /\ q.kind = "total" /\ q.total = Cardinality(matching)
          /\ q.filter = "" => q.total = Cardinality(db[t])
          /\ Ids(db'[t]) = Ids(rest)
          /\ \A y \in rest : \E z \in db'[t] : Kept(y, z, Ids(matching))
     /\ Fulfils(r, "_generateGetAll") =>
          /\ q.kind = "list" /\ q.result = matching /\ db' = db

\* C16 as stated: bulk PATCH and bulk DELETE affect exactly the rows that
\* match the filter and answer {total: K}, K the number of rows matching
\* before; rows not matching are left unchanged, so a GET of the collection
\* after a bulk DELETE returns the complement; with an empty filter K is the
\* size of the collection.
C16_BulkAffectsExactlyMatching ==
  [][\A r \in Slots : BulkAffectsMatching(r, LAMBDA y, z, gone : z = y)]_vars

\* C16 amended: the same, where a row a bulk DELETE does not match keeps
\* its id and values, and keeps its foreign key unless that referenced a
\* deleted row of the collection, in which case ON DELETE SET NULL clears it.
C16_BulkAffectsMatchingUpToSetNull ==
  [][\A r \in Slots :
       BulkAffectsMatching(r, LAMBDA y, z, gone :
         /\ z.id = y.id /\ z.name = y.name
         /\ z.fk = IF y.fk \in gone /\ reqs'[r].modelClass = "Person"
                   THEN NULL ELSE y.fk)]_vars

\* a filtered bulk DELETE matched one of the persons, answered {total: 1}
\* and left the others
C16_Witness ==
  \E r \in Slots :
    /\ reqs[r].handler = "_generateDeleteAll"
    /\ reqs[r].modelClass = "Person"
    /\ reqs[r].filter = "x"
    /\ reqs[r].status = "fulfilled"
    /\ reqs[r].total = 1
    /\ Cardinality(db.Person) = NumPersons - 1
    /\ \A x \in db.Person : x.name = "F"

(***************************************************************************)
(* POST on a collection, then GET by the returned id                       *)
(***************************************************************************)
\* C17: the step that fulfils a POST on a collection adds exactly one row,
\* holding the submitted values under an id the table did not hold (the
\* next of the sequence when the body names none), and answers with that
\* stored row; and a GET by that id which fulfils while the row is as
\* stored answers with the same body.
C17_PostThenGet ==
  [][\A r \in Slots :
       /\ Fulfils(r, "_generatePost") =>
            LET q == reqs'[r]
                t == q.modelClass
            IN /\ q.kind = "object"
               /\ \E x \in db'[t] :
                    /\ q.result = {x}
                    /\ db'[t] = db[t] \cup {x}
                    /\ x.id \notin Ids(db[t])
                    /\ x.name = q.body[1].name
                    /\ q.body[1].id = Undef => x.id = db.seq[t] + 1
       /\ Fulfils(r, "_generateGet") =>
            \A s \in Slots :
              (/\ reqs[s].handler = "_generatePost"
               /\ reqs[s].status = "fulfilled"
               /\ reqs[s].modelClass = reqs[r].modelClass
               /\ reqs[r].id \in Ids(reqs[s].result)
               /\ reqs[s].result \subseteq db[reqs[s].modelClass])
              => (reqs'[r].kind = "object" /\ reqs'[r].result = reqs[s].result)]_vars

\* a person posted, stored under the next id, and read back by that id
C17_Witness ==
  \E r, s \in Slots :
    /\ reqs[r].handler = "_generatePost"
    /\ reqs[r].modelClass = "Person"
    /\ reqs[r].status = "fulfilled"
    /\ reqs[r].result = {Row(NumPersons + 1, "x", NULL)}
    /\ reqs[s].handler = "_generateGet"
    /\ reqs[s].modelClass = "Person"
    /\ reqs[s].id = NumPersons + 1
    /\ reqs[s].status = "fulfilled"
    /\ reqs[s].result = reqs[r].result

(***************************************************************************)
(* Eager expressions                                                       *)
(***************************************************************************)
\* the endpoints that answer with model records
RecordHandlers ==
  {"_generatePost", "_generateGet", "_generatePut", "_generatePatch",
   "_generateRelationPost", "_generateRelationRelate"}

\* what C18 states of the requests to the given handlers
EagerEnforced(handlers) ==
  \A r \in Slots :
    LET q == reqs[r] IN
      (q.handler \in handlers /\ q.pc = "done" /\ q.eager = "bogus") =>
        /\ q.status = "rejected"
        /\ q.error \in {"ValidationError", "Error"}
        /\ q.error = "Error" => (q.statusCode = 404 \/ Len(q.log) > 0)

\* C18: on collection POST, item GET, PUT and PATCH, relation POST and
\* relate, a request whose query string asks for an eager path outside the
\* allow-list never fulfils: it rejects with the validation error, unless
\* the owner was not found or a query failed before the eager query ran.
C18_EagerEnforced == EagerEnforced(RecordHandlers)

(***************************************************************************)
(* Propagation of failures                                                 *)
(***************************************************************************)
\* C19: every failure met while a handler processes a request (NotFound, a
\* failing query, a failing databaseGetter) reaches the adapter as a
\* rejection of the returned promise: a settled handler has fulfilled or
\* rejected, never thrown before returning its promise, and a handler that
\* met a failure has not fulfilled.
C19_FailuresReject ==
  \A r \in Slots :
    LET q == reqs[r] IN
      q.pc = "done" =>
        /\ q.status \in {"fulfilled", "rejected"}
        /\ q.error # "" => q.status = "rejected"
(***************************************************************************)
(* The express adapter                                                     *)
(***************************************************************************)
\* the handler of the request in slot r has settled: fulfilled, rejected or
\* thrown
Settled(r) == reqs[r].pc = "done"

\* what the adapter has done so far for the request in slot r
AnsweredAtMostOnce(r) ==
  LET q == reqs[r] IN
    /\ q.pc # "idle" => q.called = 1
    /\ q.sent + q.nexted <= 1
    /\ q.sent = 1 => q.status = "fulfilled"
    /\ q.nexted = 1 => q.status \in {"rejected", "thrown"}
    /\ ~Settled(r) => q.sent + q.nexted = 0

LastCall(op) ==
  LET is == {i \in 1..Len(calls) : calls[i].op = op} IN
    IF is = {} THEN [op |-> None]
    ELSE calls[CHOOSE i \in is : \A j \in is : j <= i]

\* the prefix of the routes, in the words of the claim
C21_Prefix ==
  LET c == LastCall("routePrefix") IN
    IF c.op = None THEN <<"/">>
    ELSE IF Len(c.routePrefix) > 0 /\ c.routePrefix[Len(c.routePrefix)] = "/"
         THEN c.routePrefix
         ELSE c.routePrefix \o <<"/">>

C21_Plural(word) ==
  LET c == LastCall("pluralizer") IN
    IF c.op = None THEN word \o <<"s">> ELSE Pluralize(c.pluralizer, word)

\* the route of an endpoint, in the words of the claim
C21_Route(e) ==
  LET collection == C21_Prefix \o C21_Plural(camelCase(tableNameOf(e.modelClass)))
      relation == collection \o <<"/",":","i","d","/">> \o e.relation
  IN CASE e.handler \in {"_generatePost", "_generateGetAll", "_generatePatchAll",
                         "_generateDeleteAll"} -> collection
       [] e.handler \in {"_generateGet", "_generatePut", "_generatePatch",
                         "_generateDelete"} -> collection \o <<"/",":","i","d">>
       [] e.handler = "_generateRelationRelate" ->
            relation \o <<"/",":","r","e","l","a","t","e","d","I","d">>
       [] OTHER -> relation

\* the relation an endpoint was generated for
RelationOfEndpoint(e) ==
  LET rels == getRelations(e.modelClass) IN
    rels[CHOOSE k \in 1..Len(rels) : rels[k].name = e.relation]

\* C21: every registered route is prefix + pluralizer(camelCase(tableName)),
\* plus '/:id' for items, '/:id/' + relationName for relations and
\* '/:relatedId' for relate; the prefix is '/' by default and otherwise the
\* configured one with a '/' appended only if it lacks one, so that the join
\* makes no '//'; the default pluralizer appends 's'; and the route tested
\* against the exclusion rules is the route handed to the adapter.
C21_RouteForm ==
  phase = "generated" =>
    \A i \in 1..Len(registered) :
      LET e == registered[i] IN
        /\ e.route = C21_Route(e)
        /\ ~OccursAt(<<"/","/">>, e.route, Len(C21_Prefix) - 1)
        /\ e.route = RegisteredRoute(Cfg, e.handler, e.modelClass,
                                     IF e.relation = <<>> THEN <<>> ELSE RelationOfEndpoint(e))

\* the prefix '/api/' was configured and the relate route of Person was
\* registered under it
C21_Witness ==
  /\ phase = "generated"
  /\ LastCall("routePrefix").op # None
  /\ LastCall("routePrefix").routePrefix = <<"/","a","p","i","/">>
  /\ \E i \in 1..Len(registered) :
       /\ registered[i].handler = "_generateRelationRelate"
       /\ registered[i].route = str_apiPersons \o SlashIdSlash
                                  \o <<"m","o","v","i","e","s">> \o SlashRelatedId
(***************************************************************************)
(* Item PUT and PATCH: the write and the re-fetch                          *)
(***************************************************************************)
ItemWriteHandlers == {"_generatePut", "_generatePatch"}

\* the re-fetch of the item PUT or PATCH in slot r answers in this step
Refetches(r) ==
  /\ reqs[r].handler \in ItemWriteHandlers
  /\ reqs[r].pc = "refetch"
  /\ reqs'[r].pc = "done"

\* the re-fetch query itself failed, or refused the eager expression
QueryFailed(q) == q.status = "rejected" /\ q.statusCode # 404

\* C22: item PUT and PATCH write and then re-fetch by id in a separate
\* query, and the re-fetch alone decides: unless that query fails, the
\* request fulfils with the row of that id if the table holds one at the
\* re-fetch and rejects with 404 if it holds none, whatever the write
\* matched; it never fulfils with a row the table does not hold.
C22_RefetchDecides ==
  [][\A r \in Slots :
       Refetches(r) =>
         LET q == reqs'[r]
             rows == {x \in db[q.modelClass] : x.id = q.id}
         IN /\ db' = db
            /\ q.status \in {"fulfilled", "rejected"}
            /\ q.status = "fulfilled" =>
                 /\ rows # {}
                 /\ q.kind = "object"
                 /\ q.result = rows
                 /\ [i \in 1..Len(q.log) |-> q.log[i].op] = <<"update", "select">>
            /\ (q.status = "rejected" /\ q.statusCode = 404) => rows = {}
            /\ ~QueryFailed(q) => (q.status = "fulfilled" <=> rows # {})]_vars

\* a PUT whose write matched a row and whose re-fetch found none, the row
\* having been deleted by another request in between
C22_Witness ==
  \E r, s \in Slots :
    /\ reqs[r].handler = "_generatePut"
    /\ reqs[r].id = 1
    /\ reqs[r].committed = 1
    /\ reqs[r].status = "rejected"
    /\ reqs[r].statusCode = 404
    /\ reqs[s].handler = "_generateDelete"
    /\ reqs[s].id = 1
    /\ reqs[s].modelClass = reqs[r].modelClass
    /\ reqs[s].status = "fulfilled"
    /\ reqs[s].committed = 1
(***************************************************************************)
(* PUT on a relation: the order of its queries                             *)
(***************************************************************************)
\* the positions of the persistence calls of q with an operation among ops
Calls(q, ops) == {i \in 1..Len(q.log) : q.log[i].op \in ops}

\* C23: within one PUT on a relation, the batched delete has run before any
\* patch or insert of the group is issued, and the re-fetch for the response
\* is issued only when every patch and every insert has run; the order of
\* the patches and inserts among themselves is free.
C23_DeleteThenGroupThenRefetch ==
  \A r \in Slots :
    LET q == reqs[r]
        group == Calls(q, {"update", "insert"})
        deletes == Calls(q, {"delete"})
        refetches == Calls(q, {"select"}) \ {1}
    IN q.handler = "_generateRelationPutAll" =>
         /\ Cardinality(deletes) <= 1
         /\ group # {} => deletes # {}
         /\ \A d \in deletes : \A g \in group : d < g
         /\ \A d \in deletes : d = 2 /\ q.log[1].op = "select"
         /\ Cardinality(refetches) <= 1
         /\ \A s \in refetches :
              /\ deletes # {}
              /\ \A g \in group : g < s
              /\ Cardinality(group) = Len(q.updates) + Len(q.inserts)
              /\ q.pending = {}

\* a PUT that deleted, then inserted before it patched, then re-fetched
C23_Witness ==
  \E r \in Slots :
    /\ reqs[r].handler = "_generateRelationPutAll"
    /\ reqs[r].status = "fulfilled"
    /\ [i \in 1..Len(reqs[r].log) |-> reqs[r].log[i].op]
         = <<"select", "delete", "insert", "update", "select">>
(***************************************************************************)
(* The connection of a request                                             *)
(***************************************************************************)
\* the connection the queries of q are to go through: the one the getter
\* returned for q, or the model classes' own when no getter is set
OwnConnection(q) == IF databaseGetter THEN q.resolved ELSE "knex"

\* C24: with a databaseGetter set, every query of a handler (owner lookup,
\* writes, relation navigation, re-fetch) goes through the connection the
\* getter returned for that request, and a step of the request leaves the
\* database and the transaction of every other connection as they were, so
\* requests resolved to different connections never read or write through
\* each other's; with no getter set, every query goes through the
\* connection of the registered model classes.
C24_OwnConnectionOnly ==
  [][\A r \in Slots :
       Acts(r) =>
         LET q == reqs'[r]
             k == OwnConnection(q)
         IN /\ \A i \in 1..Len(q.log) : q.log[i].knex = k
            /\ \A other \in Connections \ {k} :
                 /\ other = "knex" => (db' = db /\ trx' = trx)
                 /\ other = "knex2" => (db2' = db2 /\ trx2' = trx2)
            /\ q.status = "fulfilled" /\ q.kind \in {"object", "list"} =>
                 q.result \subseteq UNION {(IF k = "knex" THEN db' ELSE db2')[t] :
                                             t \in {"Person", "Animal", "Movie"}}]_vars

\* two requests in flight on different connections: a person posted to the
\* empty database of the second while a PUT on the pets of person 1 was
\* writing on the first, which holds the fixture's persons and no more
C24_Witness ==
  \E r, s \in Slots :
    /\ reqs[r].handler = "_generatePost"
    /\ reqs[r].modelClass = "Person"
    /\ reqs[r].resolved = "knex2"
    /\ reqs[r].status = "fulfilled"
    /\ reqs[s].handler = "_generateRelationPutAll"
    /\ reqs[s].resolved = "knex"
    /\ reqs[s].pc = "writes"
    /\ trx.owner = s
    /\ Ids(db.Person) = Ids(Fixture.Person)
    /\ Ids(db2.Person) = {1}
(***************************************************************************)
(* PUT on a relation: records outside the relation                         *)
(***************************************************************************)
\* the PUT on a relation in slot r runs its delete, a patch or an insert in
\* this step, and the query does not fail
PutWrites(r) ==
  /\ Acts(r)
  /\ reqs[r].handler = "_generateRelationPutAll"
  /\ reqs[r].pc \in {"delete", "writes"}
  /\ reqs'[r].status = "pending"

\* the plan of a PUT on a relation touches former members only: a submitted
\* item whose id is not a member's is an insert, and patches and deletes
\* name members
PlanWithinRelation(q) ==
  LET members == Ids(q.current) IN
    /\ \A i \in 1..Len(q.body) :
         ToDbId(q.body[i].id) \notin members =>
           /\ \E j \in 1..Len(q.inserts) : q.inserts[j] = q.body[i]
           /\ \A j \in 1..Len(q.updates) : q.updates[j] # q.body[i]
    /\ \A j \in 1..Len(q.updates) : ToDbId(q.updates[j].id) \in members
    /\ q.deletes \subseteq members

\* what C25 states of a write of the PUT in slot r; with setNull, a record
\* outside the relation may lose a foreign key that referenced a deleted
\* member
OutsideKept(r, setNull) ==
  LET q == reqs[r]
      t == RelationOf(q).relatedModelClass
      members == Ids(q.current)
      before == trx.db
      after == trx'.db
      gone == Ids(before[t]) \ Ids(after[t])
  IN /\ PlanWithinRelation(q)
     /\ gone \subseteq members
     /\ \A x \in before[t] :
          x.id \notin members =>
            \E z \in after[t] :
              /\ z.id = x.id
              /\ z.name = x.name
              /\ z.fk = IF setNull /\ t = "Person" /\ x.fk \in gone THEN NULL ELSE x.fk
     /\ \A j \in before.Person_Movie :
          (t = "Movie" /\ j.movieId \notin members) => j \in after.Person_Movie
     /\ \A x \in after[t] \ before[t] :
          x.id \in Ids(before[t]) => (x.id \in members \/ (setNull /\ x.fk = NULL))

\* C25 as stated: a PUT on an owner's relation never patches or deletes a
\* record of the related model that was not a member of the relation when
\* the request read it: a submitted item with the id of such a record is
\* inserted as a new record, and the record keeps its values and its owner.
C25_OutsideUntouched ==
  [][\A r \in Slots : PutWrites(r) => OutsideKept(r, FALSE)]_vars

\* C25 amended: the same, except that a record outside the relation whose
\* foreign key referenced a member the PUT deleted has it cleared by the
\* schema's ON DELETE SET NULL.
C25_OutsideUntouchedUpToSetNull ==
  [][\A r \in Slots : PutWrites(r) => OutsideKept(r, TRUE)]_vars

\* a PUT on the children of the parent created for person 1, naming person 2
\* (a child of person 1): person 1 was deleted, a new child was inserted
\* under a fresh id, and person 2 kept its name and lost its parent
C25_Witness ==
  \E r \in Slots :
    /\ reqs[r].handler = "_generateRelationPutAll"
    /\ reqs[r].relation = <<"c","h","i","l","d","r","e","n">>
    /\ reqs[r].id = NumPersons + 1
    /\ reqs[r].status = "fulfilled"
    /\ \E i \in 1..Len(reqs[r].body) : reqs[r].body[i].id = Num(2)
    /\ Ids(reqs[r].current) = {1}
    /\ Row(2, "F", NULL) \in db.Person
    /\ Ids(db.Person) \cap {1} = {}
    /\ Cardinality(Related(db, RelationOf(reqs[r]), First(db, "Person", NumPersons + 1))) = 2
(***************************************************************************)
(* PUT on a relation: the order of the insert/update group                 *)
(***************************************************************************)
\* the rows the group leaves from the rows d the delete left, apart from the
\* inserted ones: every update item's values on the member it names
GroupUpdated(d, q) ==
  LET t == RelationOf(q).relatedModelClass
      Named(x) == {j \in 1..Len(q.updates) : ToDbId(q.updates[j].id) = x.id}
  IN [d EXCEPT ![t] =
        {IF Named(x) = {} THEN x
         ELSE [x EXCEPT !.name = q.updates[CHOOSE j \in Named(x) : TRUE].name] : x \in @}]

\* the PUT on a relation in slot r has run its whole insert/update group
GroupDone(r) ==
  /\ reqs[r].handler = "_generateRelationPutAll"
  /\ reqs[r].pc = "refetch"
  /\ trx.owner = r

\* C26: for a list with pairwise distinct identifiers, what a PUT on a
\* relation has written when its insert/update group is done is fixed by
\* the request and the rows it started from, whatever the order in which
\* the patches and inserts ran, up to the ids of the inserted records: the
\* surviving members, the values of the updated members and every other
\* row are the same, and the inserted records are as many as the insert
\* items, carry their payloads, have new ids and belong to the owner.
C26_GroupOrderIrrelevant ==
  \A r \in Slots :
    LET q == reqs[r]
        rel == RelationOf(q)
        t == rel.relatedModelClass
        deleted == DeleteRows(db, t, Ids(q.current) \cap q.deletes)
        expected == GroupUpdated(deleted, q)
        new == {x \in trx.db[t] : x.id \notin Ids(db[t])}
        joins == IF rel.kind = "ManyToMany"
                 THEN {JoinRow(q.model.id, x.id) : x \in new} ELSE {}
    IN (GroupDone(r) /\ DistinctIds(q.body)) =>
         /\ trx.db[t] \ new = expected[t]
         /\ \A u \in {"Person", "Animal", "Movie"} \ {t} : trx.db[u] = expected[u]
         /\ trx.db.Person_Movie = expected.Person_Movie \cup joins
         /\ Cardinality(new) = Len(q.inserts)
         /\ \A x \in new :
              /\ Cardinality({y \in new : y.name = x.name})
                   = Cardinality({j \in 1..Len(q.inserts) : q.inserts[j].name = x.name})
              /\ x.fk = IF rel.kind = "HasMany" THEN q.model.id ELSE NULL
         /\ Ids(Related(trx.db, rel, q.model))
              = (Ids(q.current) \ q.deletes) \cup Ids(new)

\* PUT /persons/1/pets with two items to insert, "x" before "y": the insert
\* of "y" ran first and took the lower id
C26_Witness ==
  \E r \in Slots :
    /\ GroupDone(r)
    /\ DistinctIds(reqs[r].body)
    /\ Len(reqs[r].inserts) = 2
    /\ reqs[r].inserts[1].name = "x"
    /\ reqs[r].inserts[2].name = "y"
    /\ \E x, y \in trx.db.Animal :
         /\ x.name = "x" /\ y.name = "y"
         /\ y.id < x.id
         /\ x.id \notin Ids(db.Animal) /\ y.id \notin Ids(db.Animal)

\* the same request, the inserts having run in the order of the list
C26_WitnessInOrder ==
  \E r \in Slots :
    /\ GroupDone(r)
    /\ Len(reqs[r].inserts) = 2
    /\ \E x, y \in trx.db.Animal :
         /\ x.name = "x" /\ y.name = "y"
         /\ x.id < y.id
         /\ x.id \notin Ids(db.Animal) /\ y.id \notin Ids(db.Animal)
(***************************************************************************)
(* The findQuery map                                                       *)
(***************************************************************************)
\* the table whose findQuery the handler of an endpoint looks up
TargetTable(e) ==
  IF e.relation = <<>> THEN tableNameOf(e.modelClass)
  ELSE tableNameOf(RelationOfEndpoint(e).relatedModelClass)

\* call i customised the findQuery of its model, and every other addModel is
\* of another model
CustomisedOnce(i) ==
  /\ calls[i].op = "addModel"
  /\ calls[i].modifyCb
  /\ \A j \in 1..Len(calls) :
       (j # i /\ calls[j].op = "addModel") => calls[j].modelClass # calls[i].modelClass

\* C27: after any sequence of addModel calls the findQuery map has an entry
\* for every registered model and for the related model of each of its
\* relations, so every handler generate() registers finds the findQuery of
\* its table; and the customisation made by addModel(M, modifyCb) is in
\* effect for M whether the models that relate to M were added before or
\* after it.
C27_FindQueriesComplete ==
  /\ \A c \in RegisteredClasses :
       /\ HasKey(findQueries, tableNameOf(c))
       /\ \A k \in 1..Len(getRelations(c)) :
            HasKey(findQueries, tableNameOf(getRelations(c)[k].relatedModelClass))
  /\ \A i \in 1..Len(registered) : HasKey(findQueries, TargetTable(registered[i]))
  /\ \A i \in 1..Len(calls) :
       CustomisedOnce(i) =>
         /\ HasKey(findQueries, tableNameOf(calls[i].modelClass))
         /\ ValueAt(findQueries, tableNameOf(calls[i].modelClass)).modified

\* Animal was added with a modifyCb, then Person, which relates to it; the
\* pets routes were generated and Animal's findQuery is the customised one
C27_Witness ==
  /\ phase = "generated"
  /\ Len(calls) = 2
  /\ CustomisedOnce(1)
  /\ calls[1].modelClass = "Animal"
  /\ calls[2].op = "addModel" /\ calls[2].modelClass = "Person"
  /\ ValueAt(findQueries, tableNameOf("Animal")).modified
  /\ \E i \in 1..Len(registered) :
       registered[i].handler = "_generateRelationGetAll"
         /\ registered[i].relation = <<"p","e","t","s">>

\* the same with Person added first: its default findQuery for Animal was
\* replaced by the customised one
C27_WitnessAfter ==
  /\ Len(calls) = 2
  /\ CustomisedOnce(2)
  /\ calls[2].modelClass = "Animal"
  /\ calls[1].op = "addModel" /\ calls[1].modelClass = "Person"
  /\ ValueAt(findQueries, tableNameOf("Animal")).modified
====
